---- MODULE Spec2Model ----
(***************************************************************************)
(* State-machine model of the Telemetry & Ingestion Portal of the ESG      *)
(* reporting frontend (TelemetryIngestionPortal.jsx): the tabbed shell,    *)
(* the ingestion tab with its two mutations, the custom mock store kept    *)
(* in localStorage, and the in-memory ingestion history; and of the views  *)
(* behind the other routes: the alert monitor with its live feed, the      *)
(* compliance dashboard, the what-if simulator, and the static page's      *)
(* configuration.                                                          *)
(*                                                                         *)
(* JavaScript strings are sequences of atoms (an atom is a TLA+ string     *)
(* standing for one character or one word of the text).  JavaScript        *)
(* values are tagged tuples:                                               *)
(*   <<"undef">>  <<"null">>  <<"bool", b>>  <<"num", n>>  <<"str", s>>    *)
(*   <<"arr", <<v1, ..., vn>> >>   <<"obj", << <<key, v>>, ... >> >>       *)
(***************************************************************************)
EXTENDS Integers, Sequences, FiniteSets, TLC

(***************************************************************************)
(* JavaScript values                                                       *)
(***************************************************************************)
Undefined == <<"undef">>
Null == <<"null">>
Num(n) == <<"num", n>>
Str(s) == <<"str", s>>
Arr(items) == <<"arr", items>>
Obj(pairs) == <<"obj", pairs>>

IsArr(v) == v[1] = "arr"
IsObj(v) == v[1] = "obj"
IsStr(v) == v[1] = "str"

\* v.key for an object value (undefined when the key is absent or v is a
\* number, string, boolean or array without that property)
HasKey(v, key) == IsObj(v) /\ \E i \in 1..Len(v[2]) : v[2][i][1] = key
Get(v, key) ==
  IF HasKey(v, key)
  THEN v[2][CHOOSE i \in 1..Len(v[2]) : v[2][i][1] = key][2]
  ELSE Undefined

\* v.key = val on an object: an existing key keeps its position
ObjSet(v, key, val) ==
  IF HasKey(v, key)
  THEN Obj([i \in 1..Len(v[2]) |->
              IF v[2][i][1] = key THEN <<key, val>> ELSE v[2][i]])
  ELSE Obj(Append(v[2], <<key, val>>))

\* JavaScript truthiness (the ! operator negates it)
Truthy(v) ==
  CASE v[1] = "undef" -> FALSE
    [] v[1] = "null" -> FALSE
    [] v[1] = "bool" -> v[2]
    [] v[1] = "num" -> v[2] # 0
    [] v[1] = "str" -> v[2] # <<>>
    [] OTHER -> TRUE

(***************************************************************************)
(* Strings: String.prototype.trim, number formatting                       *)
(***************************************************************************)
WhiteSpace == {" "}

RECURSIVE TrimStart(_)
TrimStart(s) ==
  IF s # <<>> /\ Head(s) \in WhiteSpace THEN TrimStart(Tail(s)) ELSE s

RECURSIVE TrimEnd(_)
TrimEnd(s) ==
  IF s # <<>> /\ s[Len(s)] \in WhiteSpace
  THEN TrimEnd(SubSeq(s, 1, Len(s) - 1))
  ELSE s

Trim(s) == TrimEnd(TrimStart(s))

DigitChars == <<"0", "1", "2", "3", "4", "5", "6", "7", "8", "9">>
IsDigit(c) == \E i \in 1..10 : DigitChars[i] = c
DigitVal(c) == (CHOOSE i \in 1..10 : DigitChars[i] = c) - 1

\* String(n) for a non-negative integer
RECURSIVE NumToString(_)
NumToString(n) ==
  IF n < 10 THEN <<DigitChars[n + 1]>>
  ELSE NumToString(n \div 10) \o <<DigitChars[(n % 10) + 1]>>

(***************************************************************************)
(* JSON.parse: a recursive-descent parser over atoms.  Each parse function *)
(* returns <<ok, value, next position>>.                                   *)
(***************************************************************************)
ParseFail == <<FALSE, Undefined, 0>>

RECURSIVE SkipWs(_, _)
SkipWs(s, i) ==
  IF i <= Len(s) /\ s[i] \in WhiteSpace THEN SkipWs(s, i + 1) ELSE i

\* the characters of a string literal after its opening quote
RECURSIVE ScanString(_, _, _)
ScanString(s, i, acc) ==
  IF i > Len(s) THEN ParseFail
  ELSE IF s[i] = "\"" THEN <<TRUE, Str(acc), i + 1>>
  ELSE IF s[i] = "\\"
       THEN IF i + 1 <= Len(s) /\ s[i + 1] \in {"\"", "\\"}
            THEN ScanString(s, i + 2, Append(acc, s[i + 1]))
            ELSE ParseFail
  ELSE ScanString(s, i + 1, Append(acc, s[i]))

RECURSIVE ScanDigits(_, _, _)
ScanDigits(s, i, acc) ==
  IF i <= Len(s) /\ IsDigit(s[i])
  THEN ScanDigits(s, i + 1, acc * 10 + DigitVal(s[i]))
  ELSE <<TRUE, Num(acc), i>>

\* a number: 0, or a non-zero digit followed by digits
ParseNumber(s, i) ==
  IF s[i] = "0" THEN <<TRUE, Num(0), i + 1>> ELSE ScanDigits(s, i, 0)

RECURSIVE ParseValue(_, _)
RECURSIVE ParseElements(_, _, _)
RECURSIVE ParseMembers(_, _, _)

ParseValue(s, i) ==
  LET j == SkipWs(s, i) IN
  IF j > Len(s) THEN ParseFail
  ELSE CASE s[j] = "{" ->
              LET k == SkipWs(s, j + 1) IN
              IF k <= Len(s) /\ s[k] = "}" THEN <<TRUE, Obj(<<>>), k + 1>>
              ELSE ParseMembers(s, k, Obj(<<>>))
         [] s[j] = "[" ->
              LET k == SkipWs(s, j + 1) IN
              IF k <= Len(s) /\ s[k] = "]" THEN <<TRUE, Arr(<<>>), k + 1>>
              ELSE ParseElements(s, k, <<>>)
         [] s[j] = "\"" -> ScanString(s, j + 1, <<>>)
         [] IsDigit(s[j]) -> ParseNumber(s, j)
         [] s[j] = "null" -> <<TRUE, Null, j + 1>>
         [] s[j] = "true" -> <<TRUE, <<"bool", TRUE>>, j + 1>>
         [] s[j] = "false" -> <<TRUE, <<"bool", FALSE>>, j + 1>>
         [] OTHER -> ParseFail

ParseElements(s, i, acc) ==
  LET r == ParseValue(s, i) IN
  IF ~r[1] THEN ParseFail
  ELSE LET k == SkipWs(s, r[3]) IN
       IF k > Len(s) THEN ParseFail
       ELSE IF s[k] = "," THEN ParseElements(s, k + 1, Append(acc, r[2]))
       ELSE IF s[k] = "]" THEN <<TRUE, Arr(Append(acc, r[2])), k + 1>>
       ELSE ParseFail

ParseMembers(s, i, acc) ==
  LET j == SkipWs(s, i) IN
  IF j > Len(s) \/ s[j] # "\"" THEN ParseFail
  ELSE LET key == ScanString(s, j + 1, <<>>) IN
       IF ~key[1] THEN ParseFail
       ELSE LET c == SkipWs(s, key[3]) IN
            IF c > Len(s) \/ s[c] # ":" THEN ParseFail
            ELSE LET r == ParseValue(s, c + 1) IN
                 IF ~r[1] THEN ParseFail
                 ELSE LET k == SkipWs(s, r[3])
                          next == ObjSet(acc, key[2][2], r[2])
                      IN IF k > Len(s) THEN ParseFail
                         ELSE IF s[k] = "," THEN ParseMembers(s, k + 1, next)
                         ELSE IF s[k] = "}" THEN <<TRUE, next, k + 1>>
                         ELSE ParseFail

\* JSON.parse(s): <<TRUE, value>>, or <<FALSE, undefined>> when it throws
JSONparse(s) ==
  LET r == ParseValue(s, 1) IN
  IF r[1] /\ SkipWs(s, r[3]) > Len(s) THEN <<TRUE, r[2]>>
  ELSE <<FALSE, Undefined>>

(***************************************************************************)
(* JSON.stringify (compact form)                                           *)
(***************************************************************************)
RECURSIVE Escape(_)
Escape(s) ==
  IF s = <<>> THEN <<>>
  ELSE (IF Head(s) \in {"\"", "\\"} THEN <<"\\", Head(s)>> ELSE <<Head(s)>>)
       \o Escape(Tail(s))

Quote(s) == <<"\"">> \o Escape(s) \o <<"\"">>

RECURSIVE JSONstringify(_)
RECURSIVE StringifyElements(_)
RECURSIVE StringifyMembers(_)

JSONstringify(v) ==
  CASE v[1] = "null" -> <<"null">>
    [] v[1] = "bool" -> <<IF v[2] THEN "true" ELSE "false">>
    [] v[1] = "num" -> NumToString(v[2])
    [] v[1] = "str" -> Quote(v[2])
    [] v[1] = "arr" -> <<"[">> \o StringifyElements(v[2]) \o <<"]">>
    [] v[1] = "obj" -> <<"{">> \o StringifyMembers(v[2]) \o <<"}">>

StringifyElements(items) ==
  IF items = <<>> THEN <<>>
  ELSE JSONstringify(Head(items))
       \o (IF Len(items) > 1 THEN <<",">> ELSE <<>>)
       \o StringifyElements(Tail(items))

StringifyMembers(pairs) ==
  IF pairs = <<>> THEN <<>>
  ELSE Quote(Head(pairs)[1]) \o <<":">> \o JSONstringify(Head(pairs)[2])
       \o (IF Len(pairs) > 1 THEN <<",">> ELSE <<>>)
       \o StringifyMembers(Tail(pairs))

(***************************************************************************)
(* Bounds of the model and the inputs the environment draws from           *)
(***************************************************************************)
MaxClock == 1          \* Date.now() ranges over 0..MaxClock
MaxRequests == 2       \* ingestion requests sent in one behaviour of Spec
MaxMocks == 2          \* custom mocks held in one behaviour of SpecMocks
MaxHistoryRequests == 21  \* requests sent in one behaviour of SpecHistory
MaxVisits == 2         \* navigations between views in one behaviour
MaxTimers == 2         \* interval timers created in one behaviour
MaxAlertRequests == 2  \* process-telemetry requests sent in one behaviour
MaxValidates == 2      \* validate requests sent in one behaviour

\* the three views of the portal, and the two ingestion modes
DASHBOARD == <<"dashboard">>
INGEST == <<"ingest">>
HISTORY == <<"history">>
Tabs == {DASHBOARD, INGEST, HISTORY}
SUSTAINABILITY == <<"sustainability">>
LEGACY == <<"legacy">>
IngestionTypes == {SUSTAINABILITY, LEGACY}

\* texts typed or pasted into the payload textarea
EmptyObjectText == <<"{", "}">>
PaddedObjectText == <<" ", "{", "}", " ">>
TimestampedText == <<"{", "\"", "timestamp", "\"", ":", "\"", "T", "\"", "}">>
MalformedText == <<"{", "bad", " ", "json">>
Buffers ==
  {<<>>, <<" ">>, MalformedText, EmptyObjectText, PaddedObjectText,
   TimestampedText, <<"null">>}
\* payloads with and without a timestamp field, and JSON that is no object
ObjectWithFieldText == <<"{", "\"", "a", "\"", ":", "1", "}">>
ZeroTimestampText == <<"{", "\"", "timestamp", "\"", ":", "0", "}">>
EmptyTimestampText == <<"{", "\"", "timestamp", "\"", ":", "\"", "\"", "}">>
NullTimestampText == <<"{", "\"", "timestamp", "\"", ":", "null", "}">>
FieldAndTimestampText ==
  <<"{", "\"", "a", "\"", ":", "1", ",",
    "\"", "timestamp", "\"", ":", "\"", "T", "\"", "}">>
ArrayText == <<"[", "]">>
NumberText == <<"5">>
SubmitBuffers ==
  {EmptyObjectText, ObjectWithFieldText, TimestampedText, ZeroTimestampText,
   EmptyTimestampText, NullTimestampText, FieldAndTimestampText, ArrayText,
   NumberText}
\* texts typed into the mock name field
Names == {<<>>, <<" ">>, <<" ", "b", " ">>}

\* what localStorage can hold under the two keys when the page loads
InitialMockStores ==
  {Null, Str(<<"{">>), Str(<<"[", "]">>), Str(<<"null">>), Str(<<"{", "}">>)}
InitialTabStores == {Null, Str(INGEST), Str(<<"bogus">>)}
\* localStorage works, or setItem throws (quota), or every access throws
StorageModes == {"ok", "quota", "denied"}

\* bodies of 2xx responses of the two endpoints
AcceptedBody ==
  Obj(<< <<<<"status">>, Str(<<"accepted">>)>>, <<<<"raw_id">>, Num(7)>> >>)
NormalBody == Obj(<< <<<<"status">>, Str(<<"NORMAL">>)>> >>)
SuccessBodies(type) ==
  IF type = SUSTAINABILITY THEN {AcceptedBody} ELSE {NormalBody}
\* non-2xx responses (status, body), and no response at all
ErrorBody(msg) ==
  Obj(<< <<<<"error">>,
           Obj(<< <<<<"code">>, Str(<<"E">>)>>, <<<<"message">>, Str(msg)>> >>)>> >>)
ErrorResponses ==
  {[status |-> Num(409), data |-> ErrorBody(<<"duplicate">>)],
   [status |-> Num(400), data |-> ErrorBody(<<"bad field">>)],
   [status |-> Undefined, data |-> Undefined]}

\* non-2xx responses as they arrive (status, status text, body text), and
\* no response at all
ErrorBodyValues ==
  {Obj(<<>>),
   ErrorBody(<<"bad field">>),
   Obj(<< <<<<"error">>, Obj(<< <<<<"code">>, Str(<<"E">>)>> >>)>> >>),
   Obj(<< <<<<"error">>, Str(<<"denied">>)>> >>),
   Obj(<< <<<<"message">>, Str(<<"top">>)>> >>),
   Obj(<< <<<<"error">>, Str(<<"denied">>)>>,
          <<<<"message">>, Str(<<"top">>)>> >>),
   Obj(<< <<<<"error">>, Obj(<< <<<<"code">>, Str(<<"E">>)>> >>)>>,
          <<<<"message">>, Str(<<"top">>)>> >>),
   Obj(<< <<<<"error">>,
            Obj(<< <<<<"message">>, Str(<<"bad field">>)>> >>)>>,
          <<<<"message">>, Str(<<"top">>)>> >>)}
ErrorBodyTexts ==
  {<<>>, <<"gateway", " ", "down">>} \cup
  {JSONstringify(v) : v \in ErrorBodyValues}
HttpErrors ==
  [status : {Num(400), Num(409), Num(500)},
   statusText : {<<>>, <<"Bad Request">>},
   text : ErrorBodyTexts]
  \cup {[status |-> Undefined, statusText |-> <<>>, text |-> <<>>]}

\* metrics reports of the backend: one metric of some type and value (in
\* tenths) in the efficiency or the hardware category
MetricTypes ==
  {<<"pue">>, <<"wue">>, <<"utilization_pct">>, <<"cue">>, <<"PUE">>,
   <<"carbon_intensity">>}
MetricValues == {0, 19, 20, 21, 25, 299, 300, 301, 1000}
Metric(type, value) ==
  Obj(<< <<<<"metric_type">>, Str(type)>>, <<<<"value">>, Num(value)>> >>)
MetricsReports ==
  {Obj(<< <<category, Arr(<<Metric(type, value)>>)>> >>) :
     category \in {<<"efficiency">>, <<"hardware">>},
     type \in MetricTypes, value \in MetricValues}

\* reports with two metrics of one type in a category
PairReports ==
  {Obj(<< <<<<"efficiency">>,
            Arr(<<Metric(<<"pue">>, v), Metric(<<"pue">>, w)>>)>>,
          <<<<"hardware">>,
            Arr(<<Metric(<<"utilization_pct">>, w * 10),
                  Metric(<<"utilization_pct">>, v * 10)>>)>> >>) :
     v \in {19, 25}, w \in {19, 25, 31}}

\* what Math.random().toString(36).slice(2, 9) can yield
RandomSuffixes == {<<"k3f09aq">>, <<"x9z41bm">>}

(***************************************************************************)
(* State                                                                   *)
(***************************************************************************)
VARIABLES
  now,                   \* the wall clock read by Date.now()
  storageMode,           \* how localStorage behaves
  tabStore,              \* localStorage['esg-telemetry-active-tab']
  mocksStore,            \* localStorage['esg-ingestion-custom-mocks']
  activeTab,             \* TelemetryIngestionPortal state
  ingestionHistory,      \* TelemetryIngestionPortal state
  ingestionType,         \* IngestionTab state
  jsonInput,             \* IngestionTab state
  customMockName,        \* IngestionTab state
  customMocks,           \* IngestionTab state
  sustainabilityMutation,\* IngestionTab: useMutation observer state
  legacyMutation,        \* IngestionTab: useMutation observer state
  inflight,              \* requests sent and not yet settled
  sent,                  \* number of ingestion requests sent so far
  crashed,               \* a render threw: React unmounted the tree
  notice,                \* the alert() raised by the last step
  wroteMocks,            \* the last step called setItem on the mocks key
  fromEmpty,             \* the mock list was initialized to the empty list
                         \* and no mock was deleted from it since
  saves,                 \* mocks saved since then (counted while fromEmpty)
  dropped,               \* history entries the last reload discarded
  metricsQuery,          \* the cached query 'telemetry-metrics'
  result,                \* what the last direct call of a library function
                         \* (HTTP wrappers, mock catalog) returned or threw
  route,                 \* the path shown: the Route whose element is mounted
  instance,              \* serial number of the component instance mounted
                         \* by the last navigation (closures belong to one)
  co2,                   \* AlertMonitor state
  temp,                  \* AlertMonitor state
  lastResult,            \* AlertMonitor state
  toast,                 \* AlertMonitor state
  feed,                  \* AlertMonitor state
  liveInterval,          \* AlertMonitor state: the id of the interval timer
  alertMutation,         \* AlertMonitor: status of the useMutation observer
  timers,                \* the interval timers the window holds
  timersCreated,         \* ids handed out by setInterval so far
  alertRequests,         \* process-telemetry requests not yet settled
  alertSent,             \* process-telemetry requests sent so far
  userRole,              \* import.meta.env.VITE_USER_ROLE
  reportName,            \* ComplianceDashboard state (the chosen file's name)
  stepIndex,             \* ComplianceDashboard state
  apiKey,                \* ComplianceDashboard state
  validateMutation,      \* ComplianceDashboard: status of the observer
  validateRequests,      \* validate requests not yet settled
  validateSent,          \* validate requests sent so far
  currentFootprint,      \* WhatIfSimulator state
  footprintEntered       \* the value the user last set through the input
                         \* since the simulator was mounted, if any

portalVars == <<activeTab, ingestionHistory>>
tabVars ==
  <<ingestionType, jsonInput, customMockName, customMocks,
    sustainabilityMutation, legacyMutation>>
storeVars == <<storageMode, tabStore, mocksStore>>
vars ==
  <<now, storageMode, tabStore, mocksStore, activeTab, ingestionHistory,
    ingestionType, jsonInput, customMockName, customMocks,
    sustainabilityMutation, legacyMutation, inflight, sent, crashed, notice,
    wroteMocks, fromEmpty, saves, dropped, metricsQuery, result,
    route, instance, co2, temp, lastResult, toast, feed, liveInterval,
    alertMutation, timers, timersCreated, alertRequests, alertSent,
    userRole, reportName, stepIndex, apiKey, validateMutation,
    validateRequests, validateSent, currentFootprint, footprintEntered>>

alertVars ==
  <<co2, temp, lastResult, toast, feed, liveInterval, alertMutation>>
alertNetVars == <<timers, timersCreated, alertRequests, alertSent>>
complianceVars ==
  <<reportName, stepIndex, apiKey, validateMutation>>
complianceNetVars == <<userRole, validateRequests, validateSent>>
simulatorVars == <<currentFootprint, footprintEntered>>
viewVars ==
  <<route, instance, alertVars, alertNetVars, complianceVars,
    complianceNetVars, simulatorVars>>

NoResult == [call |-> "none"]

IdleMutation == [status |-> "idle", data |-> Undefined, error |-> Undefined]

\* the metrics query when the portal mounts: nothing cached, first fetch
\* under way
LoadingQuery ==
  [data |-> Undefined, isInvalidated |-> FALSE, fetchStatus |-> "fetching"]

\* faulty variant: the cached report is left as it is
invalidateQueriesNever(query) == query

\* queryClient.invalidateQueries({ queryKey: ['telemetry-metrics'] }): the
\* query is marked invalid and, being observed by the portal, fetched again
invalidateQueries(query) ==
  [query EXCEPT !.isInvalidated = TRUE, !.fetchStatus = "fetching"]

\* the IngestionTab is rendered only while the ingest tab is active
Mounted == activeTab = INGEST /\ ~crashed

(***************************************************************************)
(* localStorage and the effects that read and write it                     *)
(***************************************************************************)
\* the useState initializer of activeTab
InitActiveTab(mode, store) ==
  IF mode = "denied" THEN DASHBOARD
  ELSE IF Truthy(store) THEN store[2] ELSE DASHBOARD

\* faulty variant: the active tab is never written
PersistActiveTabNever(mode, store, tab) == store

\* the effect persisting activeTab: the new value of the tab key
PersistActiveTab(mode, store, tab) ==
  IF mode = "ok" THEN Str(tab) ELSE store

\* faulty variant: the initializer without its try/catch: a failure escapes
InitCustomMocksNoCatch(mode, store) ==
  IF mode = "denied" THEN Undefined
  ELSE IF ~Truthy(store) THEN Arr(<<>>)
  ELSE JSONparse(store[2])[2]

\* the useState initializer of customMocks
InitCustomMocks(mode, store) ==
  IF mode = "denied" THEN Arr(<<>>)
  ELSE IF ~Truthy(store) THEN Arr(<<>>)
  ELSE LET r == JSONparse(store[2]) IN
       IF r[1] THEN r[2] ELSE Arr(<<>>)

\* faulty variant: the effect runs after the first render only
PersistCustomMocksOnce(mode, store, mocks) ==
  IF mode = "ok" /\ mocks = Arr(<<>>) THEN Str(JSONstringify(mocks)) ELSE store

\* the effect persisting customMocks: the new value of the mocks key
PersistCustomMocks(mode, store, mocks) ==
  IF mode = "ok" THEN Str(JSONstringify(mocks)) ELSE store

\* customMocks.length
LengthOf(v) ==
  IF IsArr(v) \/ IsStr(v) THEN Num(Len(v[2])) ELSE Get(v, <<"length">>)

\* rendering the custom mock list throws a TypeError
RenderThrows(mocks) ==
  \/ mocks \in {Null, Undefined}
  \/ /\ ~IsArr(mocks)
     /\ LengthOf(mocks)[1] = "num"
     /\ LengthOf(mocks)[2] > 0
  \/ /\ IsArr(mocks)
     /\ \E i \in 1..Len(mocks[2]) : mocks[2][i] \in {Null, Undefined}

(***************************************************************************)
(* The clock                                                               *)
(***************************************************************************)
\* new Date().toISOString(): one text per clock value
ToISOString(t) == <<"T">> \o NumToString(t) \o <<"Z">>

(***************************************************************************)
(* The HTTP client wrapper (api/client.js)                                 *)
(***************************************************************************)
\* errorMessage(data): the message of an error body, or null
errorMessage(data) ==
  IF ~Truthy(data) THEN Null
  ELSE LET err == Get(data, <<"error">>) IN
       IF Truthy(err) /\ err[1] \in {"obj", "arr"}
          /\ Truthy(Get(err, <<"message">>))
       THEN Get(err, <<"message">>)
       ELSE IF IsStr(err) THEN err
       ELSE IF Get(data, <<"message">>) \in {Null, Undefined} THEN Null
       ELSE Get(data, <<"message">>)

\* axios' own message for a failed request
AxiosMessage(resp) ==
  IF resp.status = Undefined THEN Str(<<"Network Error">>)
  ELSE Str(<<"Request failed with status code ">> \o NumToString(resp.status[2]))

\* faulty variant: the Error carries the message only
ResponseErrorBare(resp) ==
  [message |-> IF errorMessage(resp.data) = Null THEN AxiosMessage(resp)
               ELSE errorMessage(resp.data),
   status |-> Undefined,
   data |-> Undefined]

\* the Error the response interceptor rejects with
ResponseError(resp) ==
  [message |-> IF errorMessage(resp.data) = Null THEN AxiosMessage(resp)
               ELSE errorMessage(resp.data),
   status |-> resp.status,
   data |-> resp.data]

\* what axios hands the interceptor as response.data: the parsed body, or
\* the text itself when it is not JSON
AxiosData(text) ==
  IF text = <<>> THEN Str(<<>>)
  ELSE LET r == JSONparse(text) IN IF r[1] THEN r[2] ELSE Str(text)

\* String(v), as new Error(v) applies it to a message that is no string
RECURSIVE StringOf(_)
StringOf(v) ==
  CASE v[1] = "str" -> v[2]
    [] v[1] = "num" -> NumToString(v[2])
    [] v[1] = "bool" -> IF v[2] THEN <<"true">> ELSE <<"false">>
    [] v[1] = "null" -> <<"null">>
    [] v[1] = "undef" -> <<"undefined">>
    [] v[1] = "obj" -> <<"[object Object]">>
    [] v[1] = "arr" ->
         IF v[2] = <<>> THEN <<>>
         ELSE IF Len(v[2]) = 1 THEN StringOf(v[2][1])
         ELSE StringOf(v[2][1]) \o <<",">> \o StringOf(Arr(Tail(v[2])))

\* a || b
OrElse(a, b) == IF Truthy(a) THEN a ELSE b

\* the fetch-based wrapper request(path, options): the body it parses
RequestData(text) ==
  IF text = <<>> THEN Null
  ELSE LET r == JSONparse(text) IN IF r[1] THEN r[2] ELSE Str(text)

\* the Error request() throws for a response that is not ok; when fetch
\* itself rejects (no response) its TypeError passes through
RequestError(res) ==
  IF res.status = Undefined
  THEN [message |-> Str(<<"Failed to fetch">>), status |-> Undefined,
        data |-> Undefined]
  ELSE LET data == RequestData(res.text) IN
       [message |->
          Str(StringOf(
            OrElse(Get(data, <<"error">>),
              OrElse(Get(data, <<"message">>),
                OrElse(Str(res.statusText),
                       Str(<<"HTTP ">> \o NumToString(res.status[2]))))))),
        status |-> res.status,
        data |-> data]

(***************************************************************************)
(* DashboardTab                                                            *)
(***************************************************************************)
\* Metric values are decimal numbers; the model holds them in tenths, so
\* that 2.0 is Num(20) and 30 is Num(300).
\* data.category || []
MetricsIn(data, category) ==
  IF Truthy(Get(data, category)) /\ IsArr(Get(data, category))
  THEN Get(data, category)[2] ELSE <<>>

\* every metric the dashboard lays out, category by category
ShownMetrics(data) ==
  MetricsIn(data, <<"carbon">>) \o MetricsIn(data, <<"water">>)
  \o MetricsIn(data, <<"efficiency">>) \o MetricsIn(data, <<"hardware">>)
  \o MetricsIn(data, <<"data_quality">>)

\* faulty variant: the thresholds themselves count as critical
isCriticalInclusive(metric) ==
  LET type == Get(metric, <<"metric_type">>)
      value == Get(metric, <<"value">>)[2]
  IN \/ type = Str(<<"pue">>) /\ value >= 20
     \/ type = Str(<<"utilization_pct">>) /\ value <= 300
     \/ type = Str(<<"wue">>) /\ value >= 20

\* isCritical(metric), for a metric whose value is a number
isCritical(metric) ==
  LET type == Get(metric, <<"metric_type">>)
      value == Get(metric, <<"value">>)[2]
  IN \/ type = Str(<<"pue">>) /\ value > 20
     \/ type = Str(<<"utilization_pct">>) /\ value < 300
     \/ type = Str(<<"wue">>) /\ value > 20

\* metrics?.find((m) => m.metric_type === type): the first metric of the
\* type in the category, undefined when the category is absent or holds none
FindMetric(data, category, type) ==
  LET metrics == Get(data, category)
      hits == IF IsArr(metrics)
              THEN {i \in 1..Len(metrics[2]) :
                      Get(metrics[2][i], <<"metric_type">>) = Str(type)}
              ELSE {}
  IN IF hits = {} THEN Undefined
     ELSE metrics[2][CHOOSE i \in hits : \A j \in hits : i <= j]

\* summaryStats.avgPUE and summaryStats.avgUtilization
summaryStats(data) ==
  [avgPUE |->
     OrElse(Get(FindMetric(data, <<"efficiency">>, <<"pue">>), <<"value">>),
            Null),
   avgUtilization |->
     OrElse(Get(FindMetric(data, <<"hardware">>, <<"utilization_pct">>),
                <<"value">>),
            Null)]

\* the critical flags of the summary cards and of the performance alerts:
\* avgPUE != null && avgPUE > 2.0, avgUtilization != null &&
\* avgUtilization < 30
SummaryCritical(data) ==
  LET stats == summaryStats(OrElse(data, Obj(<<>>))) IN
  [pue |-> stats.avgPUE # Null /\ stats.avgPUE[2] > 20,
   utilization |-> stats.avgUtilization # Null /\ stats.avgUtilization[2] < 300]

(***************************************************************************)
(* The mock payload catalog                                                *)
(***************************************************************************)
\* uniqueId(): the clock value and a suffix drawn by Math.random()
uniqueId(t, suffix) ==
  Str(<<"mock-">> \o NumToString(t) \o <<"-">> \o suffix)

\* the two catalogs: each descriptor with its id and what tells its payload
\* from the others' (the static measurement blocks are left out)
SUSTAINABILITY_MOCKS ==
  << [id |-> "ai-training-full", asset_id |-> <<"DC1-TRAIN-A01">>],
     [id |-> "ai-inference-serving", asset_id |-> <<"DC2-INFER-B02">>],
     [id |-> "colocation-energy", asset_id |-> <<"COLO-HALL-3">>],
     [id |-> "water-intensive", asset_id |-> <<"DC3-WATER-A01">>],
     [id |-> "hpc-research", asset_id |-> <<"HPC-CLUSTER-01">>],
     [id |-> "edge-minimal", asset_id |-> <<"EDGE-01">>],
     [id |-> "full-benchmark", asset_id |-> <<"DC1-RACK-A01">>],
     [id |-> "carbon-intensive", asset_id |-> <<"DC-HIGH-CARBON">>],
     [id |-> "data-quality-focus", asset_id |-> <<"DC-QUALITY-01">>] >>
LEGACY_MOCKS ==
  << [id |-> "legacy-normal", CO2_ppm |-> 420],
     [id |-> "legacy-warning", CO2_ppm |-> 550],
     [id |-> "legacy-critical", CO2_ppm |-> 650] >>

\* mock.payload() of a descriptor of either catalog
SustainabilityPayload(mock, t, suffix) ==
  Obj(<< <<<<"timestamp">>, Str(ToISOString(t))>>,
         <<<<"asset_id">>, Str(mock.asset_id)>>,
         <<<<"external_event_id">>, uniqueId(t, suffix)>> >>)
LegacyPayload(mock) == Obj(<< <<<<"CO2_ppm">>, Num(mock.CO2_ppm)>> >>)

\* getMockPayload(mock), called at clock value t with Math.random()
\* yielding suffix
getMockPayload(catalog, i, t, suffix) ==
  IF catalog = "sustainability"
  THEN SustainabilityPayload(SUSTAINABILITY_MOCKS[i], t, suffix)
  ELSE LegacyPayload(LEGACY_MOCKS[i])

CatalogLength(catalog) ==
  IF catalog = "sustainability" THEN Len(SUSTAINABILITY_MOCKS)
  ELSE Len(LEGACY_MOCKS)

(***************************************************************************)
(* IngestionTab: mounting and unmounting                                   *)
(***************************************************************************)
\* the state of a freshly mounted IngestionTab (also kept while none is
\* mounted, when these variables stand for nothing)
FreshTab ==
  /\ ingestionType' = SUSTAINABILITY
  /\ jsonInput' = <<>>
  /\ customMockName' = <<>>
  /\ sustainabilityMutation' = IdleMutation
  /\ legacyMutation' = IdleMutation
  /\ saves' = 0

UnmountIngestionTab ==
  /\ FreshTab
  /\ fromEmpty' = FALSE
  /\ customMocks' = Undefined
  /\ mocksStore' = mocksStore
  /\ wroteMocks' = FALSE
  /\ crashed' = crashed

\* first render of IngestionTab and its persist effect; a render that
\* throws leaves the tree unmounted and runs no effect
MountIngestionTab ==
  LET mocks == InitCustomMocks(storageMode, mocksStore) IN
  /\ FreshTab
  /\ fromEmpty' = (mocks = Arr(<<>>))
  /\ customMocks' = mocks
  /\ crashed' = RenderThrows(mocks)
  /\ IF RenderThrows(mocks)
     THEN mocksStore' = mocksStore /\ wroteMocks' = FALSE
     ELSE /\ mocksStore' = PersistCustomMocks(storageMode, mocksStore, mocks)
          /\ wroteMocks' = TRUE

\* requests whose observer was unmounted keep running, unobserved
Detach(q) == [i \in 1..Len(q) |-> [q[i] EXCEPT !.attached = FALSE]]

RemoveAt(q, i) == SubSeq(q, 1, i - 1) \o SubSeq(q, i + 1, Len(q))

Min(a, b) == IF a < b THEN a ELSE b

(***************************************************************************)
(* The routes and the views behind them                                    *)
(***************************************************************************)
TELEMETRY == "/telemetry"
ALERTS == "/alerts"
COMPLIANCE == "/compliance"
SIMULATOR == "/simulator"
Routes == {TELEMETRY, ALERTS, COMPLIANCE, SIMULATOR}

\* String.prototype.toLowerCase over the letters A to Z
UpperCase ==
  <<"A", "B", "C", "D", "E", "F", "G", "H", "I", "J", "K", "L", "M",
    "N", "O", "P", "Q", "R", "S", "T", "U", "V", "W", "X", "Y", "Z">>
LowerCase ==
  <<"a", "b", "c", "d", "e", "f", "g", "h", "i", "j", "k", "l", "m",
    "n", "o", "p", "q", "r", "s", "t", "u", "v", "w", "x", "y", "z">>
LowerOf(c) ==
  IF \E i \in 1..26 : UpperCase[i] = c
  THEN LowerCase[CHOOSE i \in 1..26 : UpperCase[i] = c]
  ELSE c
\* faulty variant: the letters keep their case
toLowerCaseKeep(s) == s
toLowerCase(s) == [i \in 1..Len(s) |-> LowerOf(s[i])]

\* ---- config.js of the static page: nav links and section texts ----
NAV_LINKS ==
  << <<"D", "a", "s", "h", "b", "o", "a", "r", "d">>,
     <<"C", "o", "m", "p", "l", "i", "a", "n", "c", "e">>,
     <<"S", "i", "m", "u", "l", "a", "t", "o", "r">> >>
SECTIONS ==
  Obj(<< <<<<"d", "a", "s", "h", "b", "o", "a", "r", "d">>,
           Str(<<"This is the dashboard for monitoring environmental alerts.">>)>>,
         <<<<"c", "o", "m", "p", "l", "i", "a", "n", "c", "e">>,
           Str(<<"This is the compliance report submission form.">>)>>,
         <<<<"s", "i", "m", "u", "l", "a", "t", "o", "r">>,
           Str(<<"This is the visualization tool for \"What-If\" simulation results.">>)>> >>)
\* Object.keys(v) of an object value
ObjectKeys(v) == [i \in 1..Len(v[2]) |-> v[2][i][1]]

\* ---- config.js of the frontend: the role of the build ----
VIEWER == <<"v", "i", "e", "w", "e", "r">>
AUDITOR == <<"a", "u", "d", "i", "t", "o", "r">>
ADMIN == <<"a", "d", "m", "i", "n">>
\* values of VITE_USER_ROLE
RoleEnvs ==
  {Undefined, Str(<<>>), Str(VIEWER), Str(AUDITOR), Str(ADMIN),
   Str(<<"A", "d", "m", "i", "n">>), Str(<<"A", "U", "D", "I", "T", "O", "R">>),
   Str(<<"r", "o", "o", "t">>)}
\* (import.meta.env.VITE_USER_ROLE || 'viewer').toLowerCase()
USER_ROLE(env) == toLowerCase(OrElse(env, Str(VIEWER))[2])
\* faulty variant: every role may validate
canValidateAnyone(role) == TRUE
canValidate(role) == role = ADMIN \/ role = AUDITOR
canDelete(role) == role = ADMIN

\* ---- AlertMonitor ----
FeedKeep == 19
NoTimer == 0
NoAlertResult == [status |-> "none", critical |-> FALSE]
\* answers of the alerts service: the status and whether some detail has
\* severity CRITICAL
AlertResponses ==
  {[status |-> "OK", critical |-> FALSE],
   [status |-> "ALERT_TRIGGERED", critical |-> TRUE]}
ServiceUnavailable == [status |-> "ERROR", critical |-> FALSE]
\* what 350 + Math.random() * 150 and 28 + Math.random() * 12 can yield
LiveReadings == {[CO2_ppm |-> 499, Temperature_C |-> 39]}
\* the values typed into the two number fields
Co2Inputs == {600}
TempInputs == {50}

\* data.status === 'ALERT_TRIGGERED' && data.details?.some(CRITICAL)
RaisesToast(data) == data.status = "ALERT_TRIGGERED" /\ data.critical

\* [entry, ...prev.slice(0, 19)]
PrependFeed(entry, prev) ==
  <<entry>> \o SubSeq(prev, 1, Min(FeedKeep, Len(prev)))

\* the mutate-level onSuccess of sendTelemetry: the result goes to next[0]
RecordOnFirst(prev, data) ==
  IF prev # <<>> THEN [prev EXCEPT ![1].result = data] ELSE prev

\* a component instance after useState's initial values
FreshAlertMonitor ==
  /\ co2' = 400
  /\ temp' = 30
  /\ lastResult' = NoAlertResult
  /\ toast' = FALSE
  /\ feed' = <<>>
  /\ liveInterval' = NoTimer
  /\ alertMutation' = "idle"

FreshComplianceDashboard ==
  /\ reportName' = <<>>
  /\ stepIndex' = 0
  /\ apiKey' = <<>>
  /\ validateMutation' = "idle"

\* the values of the API key field and the names of the files chosen
ApiKeys == {<<>>, <<" ">>, <<"k">>}
ReportNames == {<<"report.pdf">>}

\* ---- WhatIfSimulator ----
\* the values typed into the footprint field
FootprintInputs == {0, 500, 1000}
\* metrics reports with carbon metrics (values in tenths of a kilogram)
CarbonReports ==
  {Obj(<<>>),
   Obj(<< <<<<"carbon">>, Arr(<<>>)>> >>),
   Obj(<< <<<<"carbon">>, Arr(<<Metric(<<"carbon_total">>, 4)>>)>> >>),
   Obj(<< <<<<"carbon">>,
            Arr(<<Metric(<<"carbon_total">>, 3000000),
                  Metric(<<"carbon_intensity">>, 4000000)>>)>> >>)}
\* data.carbon.reduce((sum, m) => sum + (m.value || 0), 0), in tenths
RECURSIVE SumValues(_)
SumValues(metrics) ==
  IF metrics = <<>> THEN 0
  ELSE (LET value == Get(Head(metrics), <<"value">>)
        IN IF Truthy(value) THEN value[2] ELSE 0)
       + SumValues(Tail(metrics))

\* the auto-populate effect: Math.round(totalCarbon / 1000) replaces a
\* footprint of 1000 when the report holds a positive carbon total
AutoPopulate(data, footprint) ==
  LET carbon == Get(data, <<"carbon">>)
      totalCarbon == IF IsArr(carbon) THEN SumValues(carbon[2]) ELSE 0
  IN IF IsArr(carbon) /\ Len(carbon[2]) > 0 /\ totalCarbon > 0
        /\ footprint = 1000
     THEN (totalCarbon + 5000) \div 10000
     ELSE footprint

(***************************************************************************)
(* Initial state: the portal after its first render and effects            *)
(***************************************************************************)
InitPortalFrom(tabStores, mockStores) ==
  /\ now = 0
  /\ storageMode \in StorageModes
  /\ \E tab0 \in tabStores, mocks0 \in mockStores :
       LET tab == InitActiveTab(storageMode, tab0)
           mocks == InitCustomMocks(storageMode, mocks0)
           mount == tab = INGEST
           throws == mount /\ RenderThrows(mocks)
       IN /\ activeTab = tab
          /\ crashed = throws
          /\ customMocks = IF mount THEN mocks ELSE Undefined
          /\ mocksStore = IF mount /\ ~throws
                          THEN PersistCustomMocks(storageMode, mocks0, mocks)
                          ELSE mocks0
          /\ wroteMocks = (mount /\ ~throws)
          /\ fromEmpty = (mount /\ mocks = Arr(<<>>))
          /\ tabStore = IF throws THEN tab0
                        ELSE PersistActiveTab(storageMode, tab0, tab)
  /\ ingestionHistory = <<>>
  /\ ingestionType = SUSTAINABILITY
  /\ jsonInput = <<>>
  /\ customMockName = <<>>
  /\ sustainabilityMutation = IdleMutation
  /\ legacyMutation = IdleMutation
  /\ inflight = <<>>
  /\ sent = 0
  /\ notice = "none"
  /\ saves = 0
  /\ dropped = 0
  /\ metricsQuery = LoadingQuery
  /\ result = NoResult

\* the views behind the other routes: path is the route the page is opened
\* at, env the role variable of the build; no timer and no request yet
InitViews(path, env) ==
  /\ route = path
  /\ instance = 0
  /\ co2 = 400
  /\ temp = 30
  /\ lastResult = NoAlertResult
  /\ toast = FALSE
  /\ feed = <<>>
  /\ liveInterval = NoTimer
  /\ alertMutation = "idle"
  /\ timers = {}
  /\ timersCreated = 0
  /\ alertRequests = {}
  /\ alertSent = 0
  /\ userRole = USER_ROLE(env)
  /\ reportName = <<>>
  /\ stepIndex = 0
  /\ apiKey = <<>>
  /\ validateMutation = "idle"
  /\ validateRequests = {}
  /\ validateSent = 0
  /\ currentFootprint = 1000
  /\ footprintEntered = <<>>

InitFrom(tabStores, mockStores) ==
  /\ InitPortalFrom(tabStores, mockStores)
  /\ InitViews(TELEMETRY, Undefined)

\* the page is reloaded: every component state is lost, requests in flight
\* are abandoned, and the portal renders again from what storage holds
Reload ==
  /\ LET tab == InitActiveTab(storageMode, tabStore)
         mocks == InitCustomMocks(storageMode, mocksStore)
         mount == tab = INGEST
         throws == mount /\ RenderThrows(mocks)
     IN /\ activeTab' = tab
        /\ crashed' = throws
        /\ customMocks' = IF mount THEN mocks ELSE Undefined
        /\ mocksStore' = IF mount /\ ~throws
                         THEN PersistCustomMocks(storageMode, mocksStore, mocks)
                         ELSE mocksStore
        /\ wroteMocks' = (mount /\ ~throws)
        /\ fromEmpty' = (mount /\ mocks = Arr(<<>>))
        /\ tabStore' = IF throws THEN tabStore
                       ELSE PersistActiveTab(storageMode, tabStore, tab)
  /\ dropped' = Len(ingestionHistory)
  /\ ingestionHistory' = <<>>
  /\ ingestionType' = SUSTAINABILITY
  /\ jsonInput' = <<>>
  /\ customMockName' = <<>>
  /\ sustainabilityMutation' = IdleMutation
  /\ legacyMutation' = IdleMutation
  /\ inflight' = <<>>
  /\ notice' = "none"
  /\ saves' = 0
  /\ metricsQuery' = LoadingQuery
  /\ FreshAlertMonitor
  /\ FreshComplianceDashboard
  /\ currentFootprint' = 1000
  /\ footprintEntered' = <<>>
  /\ timers' = {}
  /\ alertRequests' = {}
  /\ validateRequests' = {}
  /\ UNCHANGED <<route, instance, timersCreated, alertSent, userRole,
                 validateSent, now, result, storageMode, sent>>

(***************************************************************************)
(* Actions of the portal shell                                             *)
(***************************************************************************)
\* a tab button (or "Go to Ingest Data"): setActiveTab(tab)
SetActiveTab(tab) ==
  /\ ~crashed
  /\ notice' = "none"
  /\ UNCHANGED <<viewVars, now, result, dropped, metricsQuery, storageMode, ingestionHistory, sent>>
  /\ IF tab = activeTab
     THEN /\ wroteMocks' = FALSE
          /\ UNCHANGED <<activeTab, tabStore, mocksStore, tabVars, inflight,
                         crashed, fromEmpty, saves>>
     ELSE /\ activeTab' = tab
          /\ IF tab = INGEST
             THEN /\ MountIngestionTab
                  /\ inflight' = inflight
             ELSE IF activeTab = INGEST
             THEN /\ UnmountIngestionTab
                  /\ inflight' = Detach(inflight)
             ELSE /\ wroteMocks' = FALSE
                  /\ UNCHANGED <<mocksStore, tabVars, inflight, crashed,
                                 fromEmpty, saves>>
          /\ tabStore' = IF crashed' THEN tabStore
                         ELSE PersistActiveTab(storageMode, tabStore, tab)

\* "Clear History" on the history tab
ClearHistory ==
  /\ ~crashed
  /\ activeTab = HISTORY
  /\ Len(ingestionHistory) > 0
  /\ ingestionHistory' = <<>>
  /\ notice' = "none"
  /\ wroteMocks' = FALSE
  /\ UNCHANGED <<viewVars, now, result, dropped, metricsQuery, storeVars, activeTab, tabVars, inflight, sent, crashed,
                 fromEmpty, saves>>

\* handleIngestSuccess(entry): the history after the update
HistoryKeep == 19

\* faulty variant: the history is never cut
handleIngestSuccessUncapped(prev, type, data, t) ==
  <<[id |-> t, timestamp |-> ToISOString(t), status |-> "success",
     type |-> type, data |-> data]>> \o prev

\* faulty variant: the new entry is put at the end
handleIngestSuccessAppend(prev, type, data, t) ==
  SubSeq(prev, 1, Min(HistoryKeep, Len(prev)))
  \o <<[id |-> t, timestamp |-> ToISOString(t), status |-> "success",
        type |-> type, data |-> data]>>

handleIngestSuccess(prev, type, data, t) ==
  <<[id |-> t, timestamp |-> ToISOString(t), status |-> "success",
     type |-> type, data |-> data]>>
  \o SubSeq(prev, 1, Min(HistoryKeep, Len(prev)))

\* time passes
Tick ==
  /\ now' = now + 1
  /\ notice' = "none"
  /\ wroteMocks' = FALSE
  /\ UNCHANGED <<viewVars, result, dropped, metricsQuery, storeVars, portalVars, tabVars,
                 inflight, sent, crashed, fromEmpty, saves>>

\* the fetch of the metrics report under way ends with a report
MetricsSettles(report) ==
  /\ ~crashed
  /\ metricsQuery.fetchStatus = "fetching"
  /\ metricsQuery' =
       [data |-> report, isInvalidated |-> FALSE, fetchStatus |-> "idle"]
  /\ currentFootprint' =
       IF route = SIMULATOR THEN AutoPopulate(report, currentFootprint)
       ELSE currentFootprint
  /\ notice' = "none"
  /\ wroteMocks' = FALSE
  /\ UNCHANGED <<route, instance, alertVars, alertNetVars, complianceVars,
                 complianceNetVars, footprintEntered, now, result, dropped, storeVars, portalVars, tabVars, inflight, sent,
                 crashed, fromEmpty, saves>>

\* refetchInterval elapses: the report is fetched again
MetricsRefetch ==
  /\ ~crashed
  /\ metricsQuery.fetchStatus = "idle"
  /\ metricsQuery' = [metricsQuery EXCEPT !.fetchStatus = "fetching"]
  /\ notice' = "none"
  /\ wroteMocks' = FALSE
  /\ UNCHANGED <<viewVars, now, result, dropped, storeVars, portalVars, tabVars, inflight, sent,
                 crashed, fromEmpty, saves>>

\* a call through api/client.js is answered by res (or by nothing): the
\* Error its response interceptor rejects with
ClientRejects(res) ==
  /\ result' = [call |-> "client", response |-> res,
                error |-> ResponseError([status |-> res.status,
                                         data |-> IF res.status = Undefined
                                                  THEN Undefined
                                                  ELSE AxiosData(res.text)])]
  /\ UNCHANGED <<viewVars, now, storeVars, portalVars, tabVars, inflight, sent, crashed,
                 notice, wroteMocks, fromEmpty, saves, dropped, metricsQuery>>

\* a call through request() is answered by res (or by nothing): the Error
\* it throws
RequestThrows(res) ==
  /\ result' = [call |-> "request", response |-> res,
                error |-> RequestError(res)]
  /\ UNCHANGED <<viewVars, now, storeVars, portalVars, tabVars, inflight, sent, crashed,
                 notice, wroteMocks, fromEmpty, saves, dropped, metricsQuery>>

\* getMockPayload is called on the i-th descriptor of a catalog; result
\* keeps this realization and the one before it of the same descriptor
RealizeMock(catalog, i, suffix) ==
  /\ i \in 1..CatalogLength(catalog)
  /\ result' =
       [call |-> "getMockPayload", catalog |-> catalog, index |-> i,
        first |-> IF /\ result.call = "getMockPayload"
                     /\ result.catalog = catalog /\ result.index = i
                  THEN result.second ELSE Undefined,
        second |-> getMockPayload(catalog, i, now, suffix)]
  /\ UNCHANGED <<viewVars, now, storeVars, portalVars, tabVars, inflight, sent, crashed,
                 notice, wroteMocks, fromEmpty, saves, dropped, metricsQuery>>

(***************************************************************************)
(* Actions of the IngestionTab: editing                                    *)
(***************************************************************************)
\* steps that touch nothing outside the mounted IngestionTab's own state
TabLocalStep ==
  /\ Mounted
  /\ notice' = "none"
  /\ wroteMocks' = FALSE
  /\ UNCHANGED <<viewVars, now, result, dropped, metricsQuery, storeVars, portalVars, inflight, sent, crashed, fromEmpty,
                 saves, customMocks, sustainabilityMutation, legacyMutation>>

\* the payload textarea's onChange (and the "Clear" button, with text = '')
SetJsonInput(text) ==
  /\ TabLocalStep
  /\ jsonInput' = text
  /\ UNCHANGED <<ingestionType, customMockName>>

\* the mock name field's onChange
SetCustomMockName(text) ==
  /\ TabLocalStep
  /\ customMockName' = text
  /\ UNCHANGED <<ingestionType, jsonInput>>

\* the two "Ingestion Type" buttons
SetIngestionType(type) ==
  /\ TabLocalStep
  /\ ingestionType' = type
  /\ jsonInput' = <<>>
  /\ UNCHANGED customMockName

\* "Load" on the i-th custom mock (a mock saved by this program holds its
\* payload and type as strings)
LoadCustomMock(i) ==
  /\ TabLocalStep
  /\ IsArr(customMocks)
  /\ i \in 1..Len(customMocks[2])
  /\ IsStr(Get(customMocks[2][i], <<"type">>))
  /\ IsStr(Get(customMocks[2][i], <<"payload">>))
  /\ ingestionType' = Get(customMocks[2][i], <<"type">>)[2]
  /\ jsonInput' = Get(customMocks[2][i], <<"payload">>)[2]
  /\ UNCHANGED customMockName

(***************************************************************************)
(* Actions of the IngestionTab: the custom mock store                      *)
(***************************************************************************)
\* the record handleSaveCustomMock builds
NewMock(name, text, type, t) ==
  Obj(<< <<<<"id">>, Str(<<"custom-">> \o NumToString(t))>>,
         <<<<"name">>, Str(Trim(name))>>,
         <<<<"payload">>, Str(Trim(text))>>,
         <<<<"type">>, Str(type)>>,
         <<<<"savedAt">>, Str(ToISOString(t))>> >>)

\* faulty variant: [...prev, newMock]
AppendMock(mock, prev) ==
  IF IsArr(prev) THEN Arr(Append(prev[2], mock)) ELSE Undefined

\* [newMock, ...prev]: a string spreads into its characters; a value that
\* is not iterable makes the updater throw (undefined stands for the throw)
PrependMock(mock, prev) ==
  IF IsArr(prev) THEN Arr(<<mock>> \o prev[2])
  ELSE IF IsStr(prev)
  THEN Arr(<<mock>> \o [i \in 1..Len(prev[2]) |-> Str(<<prev[2][i]>>)])
  ELSE Undefined

\* faulty variant: the payload is saved without being parsed first
handleSaveCustomMockUnparsed(text, name, type, prev, t) ==
  IF Trim(text) = <<>> \/ Trim(name) = <<>> THEN <<"none", prev, name>>
  ELSE <<"none", PrependMock(NewMock(name, text, type, t), prev), <<>> >>

\* handleSaveCustomMock: <<notice, mock list, name field>> it leaves
handleSaveCustomMock(text, name, type, prev, t) ==
  IF Trim(text) = <<>> \/ Trim(name) = <<>> THEN <<"none", prev, name>>
  ELSE IF ~JSONparse(text)[1]
  THEN <<"Invalid JSON. Fix payload before saving.", prev, name>>
  ELSE <<"none", PrependMock(NewMock(name, text, type, t), prev), <<>> >>

\* a save the mock store must accept: a name and a JSON payload
ValidSaveInput(text, name) ==
  Trim(name) # <<>> /\ Trim(text) # <<>> /\ JSONparse(text)[1]

\* the "Save current as mock" button is disabled
SaveDisabled == Trim(jsonInput) = <<>> \/ Trim(customMockName) = <<>>

\* a click on "Save current as mock", the re-render and the persist effect
ClickSaveCustomMock ==
  /\ Mounted
  /\ UNCHANGED <<viewVars, now, result, dropped, metricsQuery, storageMode, tabStore, portalVars, inflight, sent,
                 ingestionType, jsonInput, sustainabilityMutation,
                 legacyMutation, fromEmpty>>
  /\ saves' = IF fromEmpty /\ ValidSaveInput(jsonInput, customMockName)
              THEN saves + 1 ELSE saves
  /\ IF SaveDisabled
     THEN /\ notice' = "none"
          /\ wroteMocks' = FALSE
          /\ UNCHANGED <<customMocks, customMockName, mocksStore, crashed>>
     ELSE LET r == handleSaveCustomMock(jsonInput, customMockName,
                                        ingestionType, customMocks, now)
          IN /\ notice' = r[1]
             /\ customMockName' = r[3]
             /\ IF r[2] = customMocks
                THEN /\ wroteMocks' = FALSE
                     /\ UNCHANGED <<customMocks, mocksStore, crashed>>
                ELSE IF RenderThrows(r[2])
                THEN /\ crashed' = TRUE
                     /\ wroteMocks' = FALSE
                     /\ UNCHANGED <<customMocks, mocksStore>>
                ELSE /\ customMocks' = r[2]
                     /\ crashed' = crashed
                     /\ wroteMocks' = TRUE
                     /\ mocksStore' =
                          PersistCustomMocks(storageMode, mocksStore, r[2])

\* handleDeleteCustomMock(id): prev.filter((m) => m.id !== id)
handleDeleteCustomMock(prev, id) ==
  Arr(SelectSeq(prev[2], LAMBDA m : Get(m, <<"id">>) # id))

\* "Delete" on the i-th custom mock, the re-render and the persist effect
ClickDeleteCustomMock(i) ==
  /\ Mounted
  /\ IsArr(customMocks)
  /\ i \in 1..Len(customMocks[2])
  /\ customMocks' =
       handleDeleteCustomMock(customMocks, Get(customMocks[2][i], <<"id">>))
  /\ mocksStore' = PersistCustomMocks(storageMode, mocksStore, customMocks')
  /\ wroteMocks' = TRUE
  /\ fromEmpty' = FALSE
  /\ notice' = "none"
  /\ UNCHANGED <<viewVars, now, result, dropped, metricsQuery, storageMode, tabStore, portalVars, inflight, sent,
                 ingestionType, jsonInput, customMockName,
                 sustainabilityMutation, legacyMutation, crashed, saves>>

(***************************************************************************)
(* Actions of the IngestionTab: submission                                 *)
(***************************************************************************)
currentMutation ==
  IF ingestionType = SUSTAINABILITY THEN sustainabilityMutation
  ELSE legacyMutation

\* the "Submit Telemetry" button is disabled
SubmitDisabled ==
  Trim(jsonInput) = <<>> \/ currentMutation.status = "pending"

NoticeEmpty == "Please enter JSON payload or load an example"
NoticeInvalid == "Invalid JSON"

\* faulty variant: the text is sent without being parsed first
handleSubmitUnparsed(text, type, t) ==
  IF Trim(text) = <<>> THEN <<NoticeEmpty, FALSE, Undefined>>
  ELSE <<"none", TRUE, JSONparse(text)[2]>>

\* faulty variant: the parsed payload is sent as it is
handleSubmitVerbatim(text, type, t) ==
  IF Trim(text) = <<>> THEN <<NoticeEmpty, FALSE, Undefined>>
  ELSE LET r == JSONparse(text) IN
       IF ~r[1] THEN <<NoticeInvalid, FALSE, Undefined>>
       ELSE <<"none", TRUE, r[2]>>

\* handleSubmit: <<notice, send, body>>.  Reading a property of null
\* throws, and so does (in module code, which is strict) setting a property
\* on a number, string or boolean; the catch block reports both as invalid
\* JSON.  A property set on an array is not part of its serialization.
handleSubmit(text, type, t) ==
  IF Trim(text) = <<>> THEN <<NoticeEmpty, FALSE, Undefined>>
  ELSE LET r == JSONparse(text)
           payload == r[2]
       IN IF ~r[1] THEN <<NoticeInvalid, FALSE, Undefined>>
          ELSE IF type = SUSTAINABILITY
          THEN IF payload = Null THEN <<NoticeInvalid, FALSE, Undefined>>
               ELSE IF ~Truthy(Get(payload, <<"timestamp">>))
               THEN IF IsObj(payload)
                    THEN <<"none", TRUE,
                           ObjSet(payload, <<"timestamp">>,
                                  Str(ToISOString(t)))>>
                    ELSE IF IsArr(payload) THEN <<"none", TRUE, payload>>
                    ELSE <<NoticeInvalid, FALSE, Undefined>>
               ELSE <<"none", TRUE, payload>>
          ELSE <<"none", TRUE, payload>>

\* the "Ingestion Failed" panel, shown while currentMutation.isError: its
\* text, and whether the duplicate-payload guidance is under it
ErrorText(mutation) ==
  LET m == Get(Get(mutation.error.data, <<"error">>), <<"message">>) IN
  IF Truthy(m) THEN m
  ELSE IF Truthy(mutation.error.message) THEN mutation.error.message
  ELSE Str(<<"Unknown error occurred">>)

ShowsDuplicateGuidance(mutation) == mutation.error.status = Num(409)

PendingMutation == [status |-> "pending", data |-> Undefined, error |-> Undefined]

\* a click on "Submit Telemetry": handleSubmit and mutation.mutate(body)
ClickSubmit ==
  /\ Mounted
  /\ wroteMocks' = FALSE
  /\ UNCHANGED <<viewVars, now, result, dropped, metricsQuery, storeVars, portalVars, crashed, fromEmpty, saves,
                 ingestionType, jsonInput, customMockName, customMocks>>
  /\ IF SubmitDisabled
     THEN /\ notice' = "none"
          /\ UNCHANGED <<inflight, sent, sustainabilityMutation,
                         legacyMutation>>
     ELSE LET r == handleSubmit(jsonInput, ingestionType, now) IN
          /\ notice' = r[1]
          /\ IF r[2]
             THEN /\ inflight' = Append(inflight,
                        [type |-> ingestionType, body |-> r[3],
                         attached |-> TRUE])
                  /\ sent' = sent + 1
                  /\ IF ingestionType = SUSTAINABILITY
                     THEN /\ sustainabilityMutation' = PendingMutation
                          /\ legacyMutation' = legacyMutation
                     ELSE /\ legacyMutation' = PendingMutation
                          /\ sustainabilityMutation' = sustainabilityMutation
             ELSE UNCHANGED <<inflight, sent, sustainabilityMutation,
                              legacyMutation>>

\* a 2xx response to the i-th request in flight: the mutation's onSuccess
\* (setJsonInput(''), invalidateQueries, onIngestSuccess), which runs
\* whether or not the IngestionTab that sent the request is still mounted;
\* handleIngestSuccess switches to the dashboard, which unmounts the
\* IngestionTab
MutationSucceeds(i, data) ==
  /\ ~crashed
  /\ i \in 1..Len(inflight)
  /\ data \in SuccessBodies(inflight[i].type)
  /\ ingestionHistory' =
       handleIngestSuccess(ingestionHistory, inflight[i].type, data, now)
  /\ activeTab' = DASHBOARD
  /\ tabStore' = IF activeTab = DASHBOARD THEN tabStore
                 ELSE PersistActiveTab(storageMode, tabStore, DASHBOARD)
  /\ IF activeTab = INGEST
     THEN UnmountIngestionTab
     ELSE /\ wroteMocks' = FALSE
          /\ UNCHANGED <<tabVars, mocksStore, crashed, fromEmpty, saves>>
  /\ inflight' = Detach(RemoveAt(inflight, i))
  /\ metricsQuery' = invalidateQueries(metricsQuery)
  /\ notice' = "none"
  /\ UNCHANGED <<viewVars, now, result, dropped, storageMode, sent>>

\* a failed request: the observer of a mounted IngestionTab records the
\* error; there is no onError callback and no retry
MutationFails(i, resp) ==
  /\ ~crashed
  /\ i \in 1..Len(inflight)
  /\ resp \in ErrorResponses
  /\ inflight' = RemoveAt(inflight, i)
  /\ LET failed == [status |-> "error", data |-> Undefined,
                    error |-> ResponseError(resp)]
     IN IF inflight[i].attached /\ inflight[i].type = SUSTAINABILITY
        THEN /\ sustainabilityMutation' = failed
             /\ legacyMutation' = legacyMutation
        ELSE IF inflight[i].attached
        THEN /\ legacyMutation' = failed
             /\ sustainabilityMutation' = sustainabilityMutation
        ELSE UNCHANGED <<sustainabilityMutation, legacyMutation>>
  /\ notice' = "none"
  /\ wroteMocks' = FALSE
  /\ UNCHANGED <<viewVars, now, result, dropped, metricsQuery, storeVars, portalVars, sent, crashed, fromEmpty, saves,
                 ingestionType, jsonInput, customMockName, customMocks>>

(***************************************************************************)
(* Navigation between the routes                                           *)
(***************************************************************************)
telemetryVars ==
  <<now, storeVars, portalVars, tabVars, inflight, sent, crashed, notice,
    wroteMocks, fromEmpty, saves, dropped, result>>

\* a Link or the nav bar leads to another route: the element of the route
\* left is unmounted and its state is lost, the element of the route
\* entered is mounted with its initial state.  Timers and requests belong
\* to the window and stay.  (The portal is in its initial state whenever a
\* behaviour navigates, so that leaving and entering it changes nothing.)
Navigate(to) ==
  /\ to # route
  /\ instance < MaxVisits
  /\ route' = to
  /\ instance' = instance + 1
  /\ FreshAlertMonitor
  /\ FreshComplianceDashboard
  /\ currentFootprint' =
       IF to = SIMULATOR THEN AutoPopulate(metricsQuery.data, 1000) ELSE 1000
  /\ footprintEntered' = <<>>
  /\ UNCHANGED <<telemetryVars, metricsQuery, alertNetVars, complianceNetVars>>

(***************************************************************************)
(* Actions of the AlertMonitor                                             *)
(***************************************************************************)
AlertStep ==
  /\ route = ALERTS
  /\ UNCHANGED <<telemetryVars, metricsQuery, route, instance, complianceVars,
                 complianceNetVars, simulatorVars>>

\* the CO2 field's onChange
SetCo2(value) ==
  /\ AlertStep
  /\ co2' = value
  /\ UNCHANGED <<temp, lastResult, toast, feed, liveInterval, alertMutation,
                 alertNetVars>>

\* the temperature field's onChange
SetTemp(value) ==
  /\ AlertStep
  /\ temp' = value
  /\ UNCHANGED <<co2, lastResult, toast, feed, liveInterval, alertMutation,
                 alertNetVars>>

\* "Send telemetry": sendTelemetry({}).  The entry carries the number of
\* the request it was created for (req), which the program does not hold.
sendTelemetry ==
  /\ AlertStep
  /\ alertMutation # "pending"
  /\ alertSent < MaxAlertRequests
  /\ LET payload == [CO2_ppm |-> co2, Temperature_C |-> temp]
         req == alertSent + 1
     IN /\ feed' = PrependFeed(
                     [req |-> req, CO2_ppm |-> payload.CO2_ppm,
                      Temperature_C |-> payload.Temperature_C,
                      result |-> NoAlertResult], feed)
        /\ alertRequests' = alertRequests \cup
             {[req |-> req, kind |-> "manual", instance |-> instance,
               CO2_ppm |-> payload.CO2_ppm,
               Temperature_C |-> payload.Temperature_C]}
        /\ alertSent' = req
  /\ alertMutation' = "pending"
  /\ UNCHANGED <<co2, temp, lastResult, toast, liveInterval, timers,
                 timersCreated>>

\* the answer to a manual request: the mutation's onSuccess, then the
\* onSuccess given to mutate.  Both set state of the instance that sent the
\* request, which does nothing once that instance is unmounted.
ManualSucceeds(r, data) ==
  /\ r \in alertRequests
  /\ r.kind = "manual"
  /\ alertRequests' = alertRequests \ {r}
  /\ IF r.instance = instance
     THEN /\ lastResult' = data
          /\ toast' = (toast \/ RaisesToast(data))
          /\ feed' = RecordOnFirst(feed, data)
          /\ alertMutation' = "success"
          /\ UNCHANGED <<co2, temp, liveInterval>>
     ELSE UNCHANGED alertVars
  /\ UNCHANGED <<telemetryVars, metricsQuery, route, instance, complianceVars,
                 complianceNetVars, simulatorVars, timers, timersCreated,
                 alertSent>>

\* a manual request is rejected: the mutation shows its error
ManualFails(r) ==
  /\ r \in alertRequests
  /\ r.kind = "manual"
  /\ alertRequests' = alertRequests \ {r}
  /\ IF r.instance = instance
     THEN /\ alertMutation' = "error"
          /\ UNCHANGED <<co2, temp, lastResult, toast, feed, liveInterval>>
     ELSE UNCHANGED alertVars
  /\ UNCHANGED <<telemetryVars, metricsQuery, route, instance, complianceVars,
                 complianceNetVars, simulatorVars, timers, timersCreated,
                 alertSent>>

\* the live feed button: startLiveFeed
startLiveFeed ==
  /\ AlertStep
  /\ IF liveInterval # NoTimer
     THEN /\ timers' = {t \in timers : t.id # liveInterval}
          /\ liveInterval' = NoTimer
          /\ UNCHANGED timersCreated
     ELSE /\ timersCreated < MaxTimers
          /\ timersCreated' = timersCreated + 1
          /\ timers' = timers \cup
               {[id |-> timersCreated + 1, instance |-> instance]}
          /\ liveInterval' = timersCreated + 1
  /\ UNCHANGED <<co2, temp, lastResult, toast, feed, alertMutation,
                 alertRequests, alertSent>>

\* an interval timer fires: the callback of the instance that created it
\* draws a reading, shows it and sends it
LiveTick(t, reading) ==
  /\ t \in timers
  /\ alertSent < MaxAlertRequests
  /\ IF t.instance = instance
     THEN co2' = reading.CO2_ppm /\ temp' = reading.Temperature_C
     ELSE UNCHANGED <<co2, temp>>
  /\ alertRequests' = alertRequests \cup
       {[req |-> alertSent + 1, kind |-> "live", instance |-> t.instance,
         CO2_ppm |-> reading.CO2_ppm,
         Temperature_C |-> reading.Temperature_C]}
  /\ alertSent' = alertSent + 1
  /\ UNCHANGED <<telemetryVars, metricsQuery, route, instance, complianceVars,
                 complianceNetVars, simulatorVars, lastResult, toast, feed,
                 liveInterval, alertMutation, timers, timersCreated>>

\* the answer to a request of the live feed (.then), or its failure
\* (.catch, with data = ServiceUnavailable)
LiveSettles(r, data) ==
  /\ r \in alertRequests
  /\ r.kind = "live"
  /\ alertRequests' = alertRequests \ {r}
  /\ IF r.instance = instance
     THEN /\ lastResult' =
               IF data = ServiceUnavailable THEN lastResult ELSE data
          /\ feed' = PrependFeed(
                       [req |-> r.req, CO2_ppm |-> r.CO2_ppm,
                        Temperature_C |-> r.Temperature_C, result |-> data],
                       feed)
          /\ toast' = (toast \/ RaisesToast(data))
          /\ UNCHANGED <<co2, temp, liveInterval, alertMutation>>
     ELSE UNCHANGED alertVars
  /\ UNCHANGED <<telemetryVars, metricsQuery, route, instance, complianceVars,
                 complianceNetVars, simulatorVars, timers, timersCreated,
                 alertSent>>

\* "Clear feed", shown while the feed holds an entry
clearFeed ==
  /\ AlertStep
  /\ feed # <<>>
  /\ feed' = <<>>
  /\ lastResult' = NoAlertResult
  /\ toast' = FALSE
  /\ UNCHANGED <<co2, temp, liveInterval, alertMutation, alertNetVars>>

\* six seconds after a critical answer: setToast(null)
ToastExpires ==
  /\ AlertStep
  /\ toast
  /\ toast' = FALSE
  /\ UNCHANGED <<co2, temp, lastResult, feed, liveInterval, alertMutation,
                 alertNetVars>>

(***************************************************************************)
(* Actions of the ComplianceDashboard                                      *)
(***************************************************************************)
showValidate == canValidate(userRole) /\ stepIndex = 0
showDelete == canDelete(userRole) /\ reportName # <<>>
\* faulty variant: "Mark Compliant" is offered at every step
showMarkCompliantAnyStep == canValidate(userRole)
showMarkCompliant == canValidate(userRole) /\ stepIndex = 1

ComplianceStep ==
  /\ route = COMPLIANCE
  /\ UNCHANGED <<telemetryVars, metricsQuery, route, instance, alertVars,
                 alertNetVars, simulatorVars, userRole>>

\* a file is chosen in the file input
handleFileChange(name) ==
  /\ ComplianceStep
  /\ reportName' = name
  /\ stepIndex' = 0
  /\ UNCHANGED <<apiKey, validateMutation, validateRequests, validateSent>>

\* the API key field's onChange; the field is rendered with the buttons
SetApiKey(text) ==
  /\ ComplianceStep
  /\ showValidate \/ showMarkCompliant
  /\ apiKey' = text
  /\ UNCHANGED <<reportName, stepIndex, validateMutation, validateRequests,
                 validateSent>>

\* "Validate": handleValidate, the button being shown and enabled
handleValidate ==
  /\ ComplianceStep
  /\ showValidate
  /\ Trim(apiKey) # <<>>
  /\ validateMutation # "pending"
  /\ validateSent < MaxValidates
  /\ validateRequests' = validateRequests \cup
       {[req |-> validateSent + 1, instance |-> instance]}
  /\ validateSent' = validateSent + 1
  /\ validateMutation' = "pending"
  /\ UNCHANGED <<reportName, stepIndex, apiKey>>

\* the validate request r is answered with success: onSuccess of the
\* instance that sent it (nothing happens once that instance is unmounted)
ValidateSucceeds(r) ==
  /\ r \in validateRequests
  /\ validateRequests' = validateRequests \ {r}
  /\ IF r.instance = instance
     THEN /\ stepIndex' = IF stepIndex < 2 THEN 1 ELSE stepIndex
          /\ validateMutation' = "success"
     ELSE UNCHANGED <<stepIndex, validateMutation>>
  /\ UNCHANGED <<telemetryVars, metricsQuery, route, instance, alertVars,
                 alertNetVars, simulatorVars, userRole, reportName, apiKey,
                 validateSent>>

\* the validate request r is rejected (403 or another failure)
ValidateFails(r) ==
  /\ r \in validateRequests
  /\ validateRequests' = validateRequests \ {r}
  /\ validateMutation' =
       IF r.instance = instance THEN "error" ELSE validateMutation
  /\ UNCHANGED <<telemetryVars, metricsQuery, route, instance, alertVars,
                 alertNetVars, simulatorVars, userRole, reportName, stepIndex,
                 apiKey, validateSent>>

\* "Mark Compliant"
handleMarkCompliant ==
  /\ ComplianceStep
  /\ showMarkCompliant
  /\ stepIndex' = 2
  /\ UNCHANGED <<reportName, apiKey, validateMutation, validateRequests,
                 validateSent>>

\* "Delete"
handleDelete ==
  /\ ComplianceStep
  /\ showDelete
  /\ reportName' = <<>>
  /\ stepIndex' = 0
  /\ UNCHANGED <<apiKey, validateMutation, validateRequests, validateSent>>

(***************************************************************************)
(* Actions of the WhatIfSimulator                                          *)
(***************************************************************************)
\* the footprint field's onChange, then the auto-populate effect, which
\* runs again because currentFootprint changed
SetFootprint(value) ==
  /\ route = SIMULATOR
  /\ value # currentFootprint
  /\ currentFootprint' = AutoPopulate(metricsQuery.data, value)
  /\ footprintEntered' = <<value>>
  /\ UNCHANGED <<telemetryVars, metricsQuery, route, instance, alertVars,
                 alertNetVars, complianceVars, complianceNetVars>>

(***************************************************************************)
(* The static page's configuration                                         *)
(***************************************************************************)
\* the section text of the i-th nav link: SECTIONS[link.toLowerCase()]
SectionOf(i) ==
  /\ result' =
       [call |-> "section", link |-> NAV_LINKS[i],
        id |-> toLowerCase(NAV_LINKS[i]),
        content |-> Get(SECTIONS, toLowerCase(NAV_LINKS[i]))]
  /\ UNCHANGED <<viewVars, now, storeVars, portalVars, tabVars, inflight,
                 sent, crashed, notice, wroteMocks, fromEmpty, saves, dropped,
                 metricsQuery>>

(***************************************************************************)
(* Specifications                                                          *)
(***************************************************************************)
\* Spec: the ingestion flow of the portal (tabs, payload editing,
\* submission, responses, history), within MaxClock and MaxRequests
Init == InitFrom(InitialTabStores, {Null})

Submit == sent < MaxRequests /\ ClickSubmit
Clock == now < MaxClock /\ Tick

Next ==
  \/ \E tab \in Tabs : SetActiveTab(tab)
  \/ ClearHistory
  \/ Clock
  \/ \E text \in Buffers : SetJsonInput(text)
  \/ \E type \in IngestionTypes : SetIngestionType(type)
  \/ Submit
  \/ \E i \in 1..MaxRequests, data \in SuccessBodies(SUSTAINABILITY)
                                       \cup SuccessBodies(LEGACY) :
       MutationSucceeds(i, data)
  \/ \E i \in 1..MaxRequests, resp \in ErrorResponses : MutationFails(i, resp)

Spec == Init /\ [][Next]_vars

\* SpecMocks: the custom mock store (saving, deleting, loading, remounting
\* the IngestionTab over every kind of storage), within MaxClock and
\* MaxMocks
\* (what a storage that cannot be accessed holds is never observed, so one
\* content stands for all)
InitMocks ==
  /\ InitFrom({Null, Str(INGEST)}, InitialMockStores)
  /\ storageMode = "denied" => tabStore = Null /\ mocksStore = Null

MockBuffers == {<<>>, <<" ">>, MalformedText, PaddedObjectText}

SaveMock ==
  /\ IsArr(customMocks) => Len(customMocks[2]) < MaxMocks
  /\ ClickSaveCustomMock

NextMocks ==
  \/ \E tab \in {DASHBOARD, INGEST} : SetActiveTab(tab)
  \/ Clock
  \/ \E text \in MockBuffers : SetJsonInput(text)
  \/ \E text \in Names : SetCustomMockName(text)
  \/ \E type \in IngestionTypes : SetIngestionType(type)
  \/ \E i \in 1..MaxMocks : LoadCustomMock(i)
  \/ SaveMock
  \/ \E i \in 1..MaxMocks : ClickDeleteCustomMock(i)

SpecMocks == InitMocks /\ [][NextMocks]_vars

\* SpecHistory: enough submissions of one payload to fill the history,
\* within MaxClock and MaxHistoryRequests
InitHistory == InitFrom({Null}, {Null}) /\ storageMode = "ok"

\* (the user waits for each response before submitting again)
SubmitHistory ==
  /\ sent < MaxHistoryRequests
  /\ inflight = <<>>
  /\ ClickSubmit

NextHistory ==
  \/ \E tab \in Tabs : SetActiveTab(tab)
  \/ ClearHistory
  \/ Clock
  \/ SetJsonInput(EmptyObjectText)
  \/ SubmitHistory
  \/ MutationSucceeds(1, AcceptedBody)

SpecHistory == InitHistory /\ [][NextHistory]_vars

\* SpecReload: the portal used across reloads of the page (tabs, one
\* payload, one mock name, submissions that succeed, all within one
\* millisecond of the clock), within MaxRequests and MaxMocks
InitReload == InitFrom(InitialTabStores, {Null})

NextReload ==
  \/ \E tab \in Tabs : SetActiveTab(tab)
  \/ ClearHistory
  \/ SetJsonInput(TimestampedText)
  \/ SetCustomMockName(<<" ", "b", " ">>)
  \/ SaveMock
  \/ \E i \in 1..MaxMocks : ClickDeleteCustomMock(i)
  \/ Submit
  \/ \E i \in 1..MaxRequests, data \in {AcceptedBody} :
       MutationSucceeds(i, data)
  \/ Reload

SpecReload == InitReload /\ [][NextReload]_vars

\* SpecSubmit: what handleSubmit sends for payloads of every shape, one
\* request at a time, within MaxClock and MaxRequests
InitSubmit == InitFrom({Str(INGEST)}, {Null}) /\ storageMode = "ok"

SubmitOne == sent < MaxRequests /\ inflight = <<>> /\ ClickSubmit

NextSubmit ==
  \/ \E tab \in {DASHBOARD, INGEST} : SetActiveTab(tab)
  \/ MetricsSettles(Obj(<<>>))
  \/ MetricsRefetch
  \/ Clock
  \/ \E text \in SubmitBuffers : SetJsonInput(text)
  \/ \E type \in IngestionTypes : SetIngestionType(type)
  \/ SubmitOne
  \/ \E data \in {AcceptedBody, NormalBody} : MutationSucceeds(1, data)

SpecSubmit == InitSubmit /\ [][NextSubmit]_vars

\* SpecFailures: submissions of one payload that the server answers with
\* an error, or not at all, or accepts, within MaxRequests
InitFailures == InitFrom({Str(INGEST)}, {Null}) /\ storageMode = "ok"

NextFailures ==
  \/ \E tab \in {DASHBOARD, INGEST} : SetActiveTab(tab)
  \/ SetJsonInput(EmptyObjectText)
  \/ \E type \in IngestionTypes : SetIngestionType(type)
  \/ Submit
  \/ \E i \in 1..MaxRequests, resp \in ErrorResponses : MutationFails(i, resp)
  \/ \E i \in 1..MaxRequests, data \in {AcceptedBody, NormalBody} :
       MutationSucceeds(i, data)

SpecFailures == InitFailures /\ [][NextFailures]_vars

\* SpecClient: the two HTTP wrappers applied to failing calls
InitClient == InitFrom({Null}, {Null}) /\ storageMode = "ok"

NextClient ==
  \/ \E res \in HttpErrors : ClientRejects(res)
  \/ \E res \in HttpErrors : RequestThrows(res)

SpecClient == InitClient /\ [][NextClient]_vars

\* SpecCatalog: descriptors of the two catalogs realized again and again
\* and the section texts of the nav links looked up while the clock
\* advances, within MaxClock
InitCatalog == InitFrom({Null}, {Null}) /\ storageMode = "ok"

ClockOnly ==
  /\ now < MaxClock
  /\ now' = now + 1
  /\ UNCHANGED <<viewVars, result, storeVars, portalVars, tabVars, inflight, sent,
                 crashed, notice, wroteMocks, fromEmpty, saves, dropped,
                 metricsQuery>>

NextCatalog ==
  \/ ClockOnly
  \/ \E catalog \in {"sustainability", "legacy"}, i \in 1..9,
        suffix \in RandomSuffixes : RealizeMock(catalog, i, suffix)
  \/ \E i \in 1..Len(NAV_LINKS) : SectionOf(i)

SpecCatalog == InitCatalog /\ [][NextCatalog]_vars

\* SpecDashboard: the dashboard over the metrics reports the backend sends
InitDashboard == InitFrom({Null}, {Null}) /\ storageMode = "ok"

NextDashboard ==
  \/ \E report \in MetricsReports \cup PairReports : MetricsSettles(report)
  \/ MetricsRefetch

SpecDashboard == InitDashboard /\ [][NextDashboard]_vars

(***************************************************************************)
(* Properties                                                              *)
(***************************************************************************)
InFlightOf(type) == {i \in 1..Len(inflight) : inflight[i].type = type}

\* C1: in both ingestion modes a submit sends no request when the payload
\* text is empty, whitespace-only or not JSON: the number of requests sent
\* grows only by a submit whose text parses as JSON, and then by one.
C1_SubmitNeedsJson ==
  [][sent' # sent =>
       /\ sent' = sent + 1
       /\ Trim(jsonInput) # <<>>
       /\ JSONparse(jsonInput)[1]]_vars

\* a submit of a text that is not JSON was refused with a notice
C1_Witness ==
  /\ notice = NoticeInvalid
  /\ ~JSONparse(jsonInput)[1]
  /\ sent = 0

\* C2: the ingestion history holds at most 20 entries, most recent first:
\* a new entry goes to the front of what was there, cut to its 19 most
\* recent entries; otherwise the history changes only by being cleared.
C2_HistoryBounded ==
  [][/\ Len(ingestionHistory') <= HistoryKeep + 1
     /\ \A i, j \in 1..Len(ingestionHistory') :
          i < j => ingestionHistory'[i].id >= ingestionHistory'[j].id
     /\ ingestionHistory' # ingestionHistory =>
          \/ ingestionHistory' = <<>>
          \/ Tail(ingestionHistory') =
               SubSeq(ingestionHistory, 1,
                      Min(HistoryKeep, Len(ingestionHistory)))]_vars

\* the history is full and its oldest entry has been dropped
C2_Witness ==
  /\ Len(ingestionHistory) = HistoryKeep + 1
  /\ sent > HistoryKeep + 1
  /\ inflight = <<>>
  /\ ingestionHistory[1].id > ingestionHistory[HistoryKeep + 1].id

\* C3: when a submission succeeds, then right after its success handler the
\* active tab is the dashboard and the first history entry is a success
\* entry with that submission's type and the response, whichever tab was
\* active when the response arrived.
C3_SuccessShowsDashboard ==
  [][\A i \in 1..Len(inflight) :
       \A data \in SuccessBodies(inflight[i].type) :
         MutationSucceeds(i, data) =>
           /\ activeTab' = DASHBOARD
           /\ ingestionHistory' # <<>>
           /\ ingestionHistory'[1].status = "success"
           /\ ingestionHistory'[1].type = inflight[i].type
           /\ ingestionHistory'[1].data = data]_vars

\* a legacy submission succeeded after a sustainability one, while the
\* IngestionTab that sent it was no longer mounted
C3_Witness ==
  /\ activeTab = DASHBOARD
  /\ Len(ingestionHistory) = 2
  /\ ingestionHistory[1].type = LEGACY
  /\ ingestionHistory[1].data = NormalBody
  /\ ingestionHistory[2].type = SUSTAINABILITY

\* C4: for each ingestion mode at most one request is in flight.
C4_OneInFlightPerMode ==
  \A type \in IngestionTypes : Cardinality(InFlightOf(type)) <= 1

MockId(i) == Get(customMocks[2][i], <<"id">>)

\* C5: "Save current as mock" with an empty (trimmed) name, or an empty or
\* non-JSON payload, leaves the custom mock list unchanged and writes
\* nothing to storage.
C5_InvalidSaveChangesNothing ==
  [][ClickSaveCustomMock /\ ~ValidSaveInput(jsonInput, customMockName) =>
       /\ customMocks' = customMocks
       /\ mocksStore' = mocksStore
       /\ ~wroteMocks']_vars

\* a save of a payload that is not JSON was refused, for a mock list that
\* holds a mock
C5_Witness ==
  /\ notice = "Invalid JSON. Fix payload before saving."
  /\ Trim(customMockName) # <<>>
  /\ ~JSONparse(jsonInput)[1]
  /\ IsArr(customMocks) /\ Len(customMocks[2]) = 1

C7_UniqueIds ==
  IsArr(customMocks) =>
    \A i, j \in 1..Len(customMocks[2]) : i # j => MockId(i) # MockId(j)

\* ids probed for the deletion of a mock that is not in the list
ProbeIds == {Str(<<"custom-">> \o NumToString(t)) : t \in 0..MaxClock + 1}

\* deleting an id that no mock has leaves the list as it is, and deleting
\* an id twice is the same as deleting it once
DeleteIdempotent ==
  Mounted /\ IsArr(customMocks) =>
    \A id \in ProbeIds :
      /\ (\A i \in 1..Len(customMocks[2]) : MockId(i) # id) =>
           handleDeleteCustomMock(customMocks, id) = customMocks
      /\ handleDeleteCustomMock(handleDeleteCustomMock(customMocks, id), id)
           = handleDeleteCustomMock(customMocks, id)

\* C8: deleting a custom mock removes exactly that one mock and keeps the
\* others in their order; deleting an absent id changes nothing; deleting
\* twice equals deleting once.
C8_DeleteRemovesOne ==
  /\ []DeleteIdempotent
  /\ [][\A i \in 1..MaxMocks :
          ClickDeleteCustomMock(i) =>
            customMocks'[2] = RemoveAt(customMocks[2], i)]_vars

\* C9: while storage writes succeed, the value stored under the mocks key
\* is the JSON serialization of the whole in-memory list after every save
\* and delete; when the write fails, the failure is swallowed and the list
\* still holds the result of the save or delete.
C9_StoreFollowsList ==
  /\ [](Mounted /\ storageMode = "ok" =>
          mocksStore = Str(JSONstringify(customMocks)))
  /\ [][storageMode # "ok" =>
          /\ (/\ ClickSaveCustomMock
              /\ ValidSaveInput(jsonInput, customMockName)
              /\ IsArr(customMocks)) =>
               /\ ~crashed'
               /\ mocksStore' = mocksStore
               /\ customMocks' =
                    Arr(<<NewMock(customMockName, jsonInput, ingestionType,
                                  now)>> \o customMocks[2])
          /\ \A i \in 1..MaxMocks :
               ClickDeleteCustomMock(i) =>
                 /\ ~crashed'
                 /\ mocksStore' = mocksStore
                 /\ customMocks' =
                      handleDeleteCustomMock(customMocks, MockId(i))]_vars

\* with storage working, a mock was saved, one was deleted, and the stored
\* text holds the one mock left
C9_Witness ==
  /\ Mounted /\ storageMode = "ok" /\ wroteMocks /\ ~fromEmpty
  /\ IsArr(customMocks) /\ Len(customMocks[2]) = 1
  /\ JSONparse(mocksStore[2]) = <<TRUE, customMocks>>

\* C10: when the mock list is initialized and the storage key is missing,
\* holds text that is not JSON, or storage cannot be read, the list is the
\* empty list and nothing is thrown.
UnreadableStore ==
  \/ storageMode = "denied"
  \/ mocksStore = Null
  \/ IsStr(mocksStore) /\ ~JSONparse(mocksStore[2])[1]

C10_InitFallsBackToEmpty ==
  /\ activeTab = INGEST /\ UnreadableStore =>
       customMocks = Arr(<<>>) /\ ~crashed
  /\ [][activeTab # INGEST /\ activeTab' = INGEST /\ UnreadableStore =>
          customMocks' = Arr(<<>>) /\ ~crashed']_vars

\* the list was initialized from a stored text that is not JSON
C10_Witness ==
  /\ Mounted
  /\ IsStr(mocksStore) /\ ~JSONparse(mocksStore[2])[1]
  /\ customMocks = Arr(<<>>)

\* C11: in every reachable state the active tab is one of 'dashboard',
\* 'ingest', 'history', for every initial content of storage.
C11_ActiveTabIsAView == activeTab \in Tabs

\* C12: after a reload with storage reads and writes succeeding, the
\* ingestion history is empty, and the active tab and the custom mock list
\* (in memory while the ingest tab shows it, and under its storage key)
\* equal their values before the reload.
C12_ReloadKeepsTabAndMocks ==
  [][Reload /\ storageMode = "ok" /\ ~crashed =>
       /\ ingestionHistory' = <<>>
       /\ activeTab' = activeTab
       /\ customMocks' = customMocks
       /\ mocksStore' = mocksStore
       /\ ~crashed']_vars

\* a reload discarded a history entry and brought back the ingest tab with
\* the one mock that had been saved
C12_Witness ==
  /\ storageMode = "ok" /\ dropped >= 1 /\ ingestionHistory = <<>>
  /\ Mounted /\ IsArr(customMocks) /\ Len(customMocks[2]) = 1 /\ saves = 0

\* the payload handleSubmit parses from the edit buffer, and the body of
\* the request the step sends
ParsedPayload == JSONparse(jsonInput)[2]
SentBody == inflight'[Len(inflight')].body
TimestampKey == <<"timestamp">>

\* C13: in sustainability mode, when the parsed object has no timestamp
\* field, the submitted body is the parsed object with one field added
\* after its own, timestamp, holding the current time in ISO form; every
\* other field is kept as it is, in its place.
C13_TimestampInjected ==
  [][(/\ sent' = sent + 1
      /\ ingestionType = SUSTAINABILITY
      /\ IsObj(ParsedPayload)
      /\ ~HasKey(ParsedPayload, TimestampKey)) =>
       SentBody = Obj(Append(ParsedPayload[2],
                             <<TimestampKey, Str(ToISOString(now))>>))]_vars

\* {"a":1} was submitted in sustainability mode at clock value 1
C13_Witness ==
  /\ inflight # <<>>
  /\ inflight[1].type = SUSTAINABILITY
  /\ inflight[1].body =
       Obj(<< <<<<"a">>, Num(1)>>, <<TimestampKey, Str(ToISOString(1))>> >>)

\* C14: in sustainability mode, a parsed payload that has a timestamp
\* field, whatever its value, is submitted with that same timestamp value.
C14_TimestampKept ==
  [][(/\ sent' = sent + 1
      /\ ingestionType = SUSTAINABILITY
      /\ HasKey(ParsedPayload, TimestampKey)) =>
       Get(SentBody, TimestampKey) = Get(ParsedPayload, TimestampKey)]_vars

\* C15: when a submission succeeds, in sustainability mode and in legacy
\* mode alike, the edit buffer is empty afterwards and the cached metrics
\* report is invalidated and being fetched again.
C15_SuccessClearsAndInvalidates ==
  [][\A i \in 1..Len(inflight) : \A data \in SuccessBodies(inflight[i].type) :
       MutationSucceeds(i, data) =>
         /\ jsonInput' = <<>>
         /\ metricsQuery'.isInvalidated
         /\ metricsQuery'.fetchStatus = "fetching"]_vars

\* a legacy submission succeeded after the metrics report had been fetched
C15_Witness ==
  /\ ingestionHistory # <<>> /\ ingestionHistory[1].type = LEGACY
  /\ metricsQuery.data = Obj(<<>>)
  /\ metricsQuery.isInvalidated /\ metricsQuery.fetchStatus = "fetching"
  /\ jsonInput = <<>>

\* C16: every completed ingestion attempt adds one entry to the ingestion
\* history, at its head: with status 'success' when the attempt succeeded
\* and with status 'failed' when it failed.
C16_EveryAttemptRecorded ==
  [][\A i \in 1..Len(inflight) :
       /\ \A data \in SuccessBodies(inflight[i].type) :
            MutationSucceeds(i, data) =>
              /\ ingestionHistory' # <<>>
              /\ ingestionHistory'[1].status = "success"
              /\ Tail(ingestionHistory') =
                   SubSeq(ingestionHistory, 1,
                          Min(HistoryKeep, Len(ingestionHistory)))
       /\ \A resp \in ErrorResponses :
            MutationFails(i, resp) =>
              /\ ingestionHistory' # <<>>
              /\ ingestionHistory'[1].status = "failed"
              /\ Tail(ingestionHistory') =
                   SubSeq(ingestionHistory, 1,
                          Min(HistoryKeep, Len(ingestionHistory)))]_vars

ParsedBody ==
  IF result.call = "client" THEN AxiosData(result.response.text)
  ELSE RequestData(result.response.text)

\* the message the priority order prescribes for the last call's response
PrescribedMessage ==
  LET err == Get(ParsedBody, <<"error">>) IN
  IF IsObj(err) /\ HasKey(err, <<"message">>) THEN Get(err, <<"message">>)
  ELSE IF IsStr(err) THEN err
  ELSE IF HasKey(ParsedBody, <<"message">>)
  THEN Get(ParsedBody, <<"message">>)
  ELSE Str(result.response.statusText)

\* C18: for every non-success response the error a wrapper raises carries
\* the HTTP status, the parsed body as data, and the message chosen in the
\* order error.message, string error, top-level message, status text; with
\* no response the error has no status.
C18_UniformError ==
  result.call \in {"client", "request"} =>
    IF result.response.status = Undefined
    THEN result.error.status = Undefined
    ELSE /\ result.error.status = result.response.status
         /\ result.error.data = ParsedBody
         /\ result.error.message = PrescribedMessage

\* Date.parse of a timestamp toISOString wrote
DateParse(str) == CHOOSE t \in 0..MaxClock + 1 : Str(ToISOString(t)) = str

\* C19: for every descriptor of SUSTAINABILITY_MOCKS and of LEGACY_MOCKS,
\* two realizations by getMockPayload have different external_event_id,
\* and the timestamp of the second is equal to or later than the first's.
C19_RealizationsDiffer ==
  (result.call = "getMockPayload" /\ result.first # Undefined) =>
    /\ Get(result.first, <<"external_event_id">>)
         # Get(result.second, <<"external_event_id">>)
    /\ HasKey(result.first, <<"timestamp">>)
    /\ HasKey(result.second, <<"timestamp">>)
    /\ DateParse(Get(result.second, <<"timestamp">>))
         >= DateParse(Get(result.first, <<"timestamp">>))

\* C20: a metric is critical exactly when it is a pue or a wue above 2.0 or
\* a utilization_pct below 30, the comparisons strict; a metric of any
\* other type is never critical.
C20_CriticalThresholds ==
  LET shown == ShownMetrics(metricsQuery.data) IN
  \A i \in 1..Len(shown) :
    LET type == Get(shown[i], <<"metric_type">>)[2]
        value == Get(shown[i], <<"value">>)[2]
    IN /\ isCritical(shown[i]) <=>
            \/ type = <<"pue">> /\ value > 20
            \/ type = <<"wue">> /\ value > 20
            \/ type = <<"utilization_pct">> /\ value < 300
       /\ (type \in {<<"pue">>, <<"wue">>} /\ value = 20) =>
            ~isCritical(shown[i])
       /\ (type = <<"utilization_pct">> /\ value = 300) =>
            ~isCritical(shown[i])
       /\ type \notin {<<"pue">>, <<"wue">>, <<"utilization_pct">>} =>
            ~isCritical(shown[i])

\* the dashboard shows a pue of exactly 2.0, which is not critical
C20_Witness ==
  /\ activeTab = DASHBOARD
  /\ ShownMetrics(metricsQuery.data) = <<Metric(<<"pue">>, 20)>>
  /\ ~isCritical(ShownMetrics(metricsQuery.data)[1])

\* C21: the summary marks PUE critical exactly when the first efficiency
\* metric of type pue has a value above 2.0, and marks utilization critical
\* exactly when the first hardware metric of type utilization_pct has a
\* value below 30, for every report with non-negative values.
C21_SummaryAgrees ==
  LET data == OrElse(metricsQuery.data, Obj(<<>>))
      pue == FindMetric(data, <<"efficiency">>, <<"pue">>)
      utilization == FindMetric(data, <<"hardware">>, <<"utilization_pct">>)
  IN /\ SummaryCritical(metricsQuery.data).pue <=>
          (pue # Undefined /\ isCritical(pue))
     /\ SummaryCritical(metricsQuery.data).utilization <=>
          (utilization # Undefined /\ isCritical(utilization))

\* SpecAlerts: the alert monitor with manual sends, the live feed, answers
\* in any order and navigation to and from the telemetry portal, within
\* MaxVisits, MaxTimers and MaxAlertRequests
InitAlerts ==
  /\ InitPortalFrom({Null}, {Null})
  /\ storageMode = "ok"
  /\ InitViews(ALERTS, Undefined)

NextAlerts ==
  \/ \E to \in {TELEMETRY, ALERTS} : Navigate(to)
  \/ \E value \in Co2Inputs : SetCo2(value)
  \/ \E value \in TempInputs : SetTemp(value)
  \/ sendTelemetry
  \/ \E r \in alertRequests, data \in AlertResponses : ManualSucceeds(r, data)
  \/ \E r \in alertRequests : ManualFails(r)
  \/ startLiveFeed
  \/ \E t \in timers, reading \in LiveReadings : LiveTick(t, reading)
  \/ \E r \in alertRequests, data \in AlertResponses \cup {ServiceUnavailable} :
       LiveSettles(r, data)
  \/ clearFeed
  \/ ToastExpires

SpecAlerts == InitAlerts /\ [][NextAlerts]_vars

\* C22: once started, the live-feed timer sends one request at every tick
\* and stays active until the user toggles it off; leaving the view does
\* not stop it; toggling the live feed off clears the timer, and from then
\* on no timer is left whose tick would send a request.
C22_LiveFeedUntilToggledOff ==
  [][/\ \A t \in timers, reading \in LiveReadings :
          LiveTick(t, reading) =>
            /\ alertSent' = alertSent + 1
            /\ \E r \in alertRequests' \ alertRequests :
                 r.kind = "live" /\ r.CO2_ppm = reading.CO2_ppm
     /\ (\E t \in timers : t \notin timers') =>
          (startLiveFeed /\ liveInterval # NoTimer)
     /\ (\E to \in Routes : Navigate(to)) => timers' = timers
     /\ (startLiveFeed /\ liveInterval # NoTimer) => timers' = {}]_vars

\* C24: the answer to a manual "Send telemetry" is recorded on the feed
\* entry created for that send and on no other entry, whatever live-feed
\* answers and clear-feed actions happened while the request was in flight.
C24_ManualAnswerOnItsEntry ==
  [][\A r \in alertRequests, data \in AlertResponses :
       (ManualSucceeds(r, data) /\ r.instance = instance) =>
         /\ Len(feed') = Len(feed)
         /\ \A i \in 1..Len(feed) :
              feed'[i].result =
                IF feed[i].req = r.req THEN data ELSE feed[i].result]_vars

\* C25: at most one live-feed interval timer is active at any time.
C25_AtMostOneTimer == Cardinality(timers) <= 1

\* C23: the nav links are exactly Dashboard, Compliance, Simulator, and
\* SECTIONS has exactly one entry per nav link, keyed by the lower-cased
\* link name, each a non-empty string, with no other keys.
C23_SectionsMatchNavLinks ==
  LET ids == {toLowerCase(NAV_LINKS[i]) : i \in 1..Len(NAV_LINKS)}
      keys == ObjectKeys(SECTIONS)
  IN /\ Len(NAV_LINKS) = 3
     /\ NAV_LINKS[1] = <<"D", "a", "s", "h", "b", "o", "a", "r", "d">>
     /\ NAV_LINKS[2] = <<"C", "o", "m", "p", "l", "i", "a", "n", "c", "e">>
     /\ NAV_LINKS[3] = <<"S", "i", "m", "u", "l", "a", "t", "o", "r">>
     /\ Len(keys) = Len(NAV_LINKS)
     /\ {keys[i] : i \in 1..Len(keys)} = ids
     /\ \A id \in ids :
          IsStr(Get(SECTIONS, id)) /\ Get(SECTIONS, id)[2] # <<>>
     /\ result.call = "section" =>
          /\ result.id \in {keys[i] : i \in 1..Len(keys)}
          /\ IsStr(result.content)
          /\ result.content[2] # <<>>

\* the section text of the Compliance link was looked up
C23_Witness ==
  /\ result.call = "section"
  /\ result.link = NAV_LINKS[2]
  /\ result.id = <<"c", "o", "m", "p", "l", "i", "a", "n", "c", "e">>
  /\ result.content = Str(<<"This is the compliance report submission form.">>)

\* C26: for every text stored under the custom-mocks key, valid JSON that
\* is not an array included, the custom mock list of the ingest tab is a
\* list after initialization and rendering it does not fail.
C26_InitYieldsList ==
  activeTab = INGEST => (IsArr(customMocks) /\ ~crashed)

\* C27: a custom mock in the list stays in the list over every step that
\* is neither a delete nor a page reload (tab switches and ingestion
\* successes included), whether or not storage writes succeed.  While the
\* ingest tab is closed, the list is the one it would open with.
CustomMockList ==
  IF activeTab = INGEST THEN customMocks
  ELSE InitCustomMocks(storageMode, mocksStore)
CustomMockListAfter ==
  IF activeTab' = INGEST THEN customMocks'
  ELSE InitCustomMocks(storageMode', mocksStore')

C27_SavedMockStays ==
  [][(/\ ~crashed
      /\ IsArr(CustomMockList)
      /\ ~Reload
      /\ ~(\E i \in 1..MaxMocks : ClickDeleteCustomMock(i))) =>
       /\ IsArr(CustomMockListAfter)
       /\ \A i \in 1..Len(CustomMockList[2]) :
            \E j \in 1..Len(CustomMockListAfter[2]) :
              CustomMockListAfter[2][j] = CustomMockList[2][i]]_vars

\* SpecCompliance: the compliance dashboard under every role of the build,
\* with answers to validate requests in any order and navigation to and
\* from the telemetry portal, within MaxVisits and MaxValidates
InitCompliance ==
  /\ InitPortalFrom({Null}, {Null})
  /\ storageMode = "ok"
  /\ \E env \in RoleEnvs : InitViews(COMPLIANCE, env)

NextCompliance ==
  \/ \E to \in {TELEMETRY, COMPLIANCE} : Navigate(to)
  \/ \E name \in ReportNames : handleFileChange(name)
  \/ \E text \in ApiKeys : SetApiKey(text)
  \/ handleValidate
  \/ \E r \in validateRequests : ValidateSucceeds(r)
  \/ \E r \in validateRequests : ValidateFails(r)
  \/ handleMarkCompliant
  \/ handleDelete

SpecCompliance == InitCompliance /\ [][NextCompliance]_vars

\* SpecSimulator: the what-if simulator while metrics reports arrive and
\* the user edits the footprint, within MaxVisits
InitSimulator ==
  /\ InitPortalFrom({Null}, {Null})
  /\ storageMode = "ok"
  /\ InitViews(SIMULATOR, Undefined)

NextSimulator ==
  \/ \E to \in {TELEMETRY, SIMULATOR} : Navigate(to)
  \/ \E value \in FootprintInputs : SetFootprint(value)
  \/ \E report \in CarbonReports : MetricsSettles(report)
  \/ MetricsRefetch

SpecSimulator == InitSimulator /\ [][NextSimulator]_vars

\* C28: with role viewer no validate request is ever sent and the report
\* status stays Pending (stepIndex 0); a validate request is sent and the
\* status is marked Compliant only under the roles admin and auditor, and
\* a report is deleted only under the role admin.
C28_ViewerIsReadOnly ==
  /\ [](userRole = VIEWER =>
          stepIndex = 0 /\ validateSent = 0 /\ validateRequests = {})
  /\ [](showValidate \/ showMarkCompliant => userRole \in {ADMIN, AUDITOR})
  /\ [](showDelete => userRole = ADMIN)
  /\ [][/\ validateSent' # validateSent => userRole \in {ADMIN, AUDITOR}
        /\ stepIndex' # 0 => userRole \in {ADMIN, AUDITOR}
        /\ (route' = route /\ reportName # <<>> /\ reportName' = <<>>) =>
             userRole = ADMIN]_vars

\* a viewer has chosen a report file and is offered no action on it
C28_Witness ==
  /\ route = COMPLIANCE
  /\ userRole = VIEWER
  /\ reportName # <<>>
  /\ ~showValidate /\ ~showMarkCompliant /\ ~showDelete

\* C29: stepIndex is always 0, 1 or 2; Compliant (2) is entered only from
\* Audited (1); Audited is entered only from Pending (0) and only by a
\* successful validate response; a validate response never moves the
\* status away from Compliant.
C29_StatusAdvancesInOrder ==
  /\ [](stepIndex \in {0, 1, 2})
  /\ [][/\ (stepIndex' = 2 /\ stepIndex # 2) => stepIndex = 1
        /\ (stepIndex' = 1 /\ stepIndex # 1) =>
             /\ stepIndex = 0
             /\ \E r \in validateRequests : ValidateSucceeds(r)
        /\ \A r \in validateRequests :
             (ValidateSucceeds(r) /\ stepIndex = 2) => stepIndex' = 2]_vars

\* the status is Compliant while a validate request is still unanswered
C29_Witness ==
  /\ route = COMPLIANCE
  /\ stepIndex = 2
  /\ validateRequests # {}

\* C30: once the user has set the footprint through the input, the arrival
\* of a metrics report does not change the footprint.
C30_EnteredFootprintKept ==
  [][(/\ footprintEntered # <<>>
      /\ \E report \in CarbonReports : MetricsSettles(report)) =>
       currentFootprint' = currentFootprint]_vars

====
